---- MODULE Spec2Model ----
(***************************************************************************)
(* A model of the BPF side of the scx_wd40 scheduler                       *)
(* (scheds/rust/scx_wd40/src/bpf/main.bpf.c): per-task domain assignment,  *)
(* select_cpu, enqueue, dispatch and the vtime bookkeeping, with the       *)
(* userspace balancer and the host scheduling framework as environment.    *)
(***************************************************************************)
EXTENDS Integers, Sequences, FiniteSets, TLC

(***************************************************************************)
(* Program constants                                                       *)
(***************************************************************************)
\* nr_cpu_ids: number of possible CPU ids (set during init).
nr_cpu_ids == 4

\* MAX_DOMS: capacity of the domain tables; cpu_to_dom_id() yields it for an
\* out-of-range CPU and is_offline_cpu() compares against it.
MAX_DOMS == 64

\* errno values returned negated by the callbacks.
ENOENT == 2

\* Sentinel domain id of task_pick_domain(): no domain intersects.
NO_DOM_FOUND == MAX_DOMS + 1

\* cpu_dom_id_map[] value of a CPU that belongs to no domain (any value
\* above MAX_DOMS makes is_offline_cpu() true).
OFFLINE_DOM == MAX_DOMS + 2

\* A null dom_ptr / lb_domain pointer.
NULL == 0 - 1

(***************************************************************************)
(* Bounds of the model                                                     *)
(***************************************************************************)
\* Width in bits of the modelled u32 round-robin cursor (dom_rr_cur wraps).
CursorBits == 2

\* Largest vtime value tracked; run-stop does not advance past it.
MaxVtime == 1

\* Modelled capacity of a domain's active-task ring (MAX_DOM_ACTIVE_TPTRS).
MAX_DOM_ACTIVE_TPTRS == 2

\* Largest value the write cursor of a ring reaches: rusty_running does not
\* record past it.
MaxWrites == 3

\* Largest generation the balancer stamps on a ring.
MaxGen == 1

\* Largest generation the tuner stamps on tune_input.
MaxTuneGen == 2

CPUS == 0 .. (nr_cpu_ids - 1)

Tasks == {"t1"}

U32 == 2 ^ CursorBits

\* The two hardware threads of a physical core: CPUs 2k and 2k+1.
Sibling(c) == IF c % 2 = 0 THEN c + 1 ELSE c - 1

VARIABLES
    rodata,          \* the const volatile configuration, fixed at load
    task,            \* per task: task_struct fields and its task_ctx
    st,              \* per task: where the host framework has the task
    pcpu_ctx,        \* per CPU: dom_rr_cur cursor and resident dom_id
    min_vruntime,    \* per domain: the vtime baseline of its dom_ctx
    dom_dsq,         \* per domain: its dispatch queue, head first
    local_dsq,       \* per CPU: its local dispatch queue, head first
    idle_cpumask,    \* CPUs the host currently tracks as idle
    tune_input,      \* tuning blob written by the userspace tuner
    tune,            \* tune_params_gen, slice_ns and the derived greedy masks
    last_select,     \* per task: the exit its latest select_cpu call took
                     \* ("none" while it sleeps: it wakes through select_cpu)
    obs,             \* what the last callback did (its inputs and outputs)
    active_tasks,    \* per domain: gen, write_idx and tasks[] of its ring
    recording,       \* per task: the rusty_running call in flight for it
                     \* (what it read at lines 926-929), if any
    ring_hist,       \* history: per domain the latest run-starts and every
                     \* ring write made so far, in order
    select_call      \* per task: the rusty_select_cpu call in flight for it
                     \* (its position and what it has read so far), if any

vars == <<rodata, task, st, pcpu_ctx, min_vruntime, dom_dsq, local_dsq,
          idle_cpumask, tune_input, tune, last_select, obs, active_tasks,
          recording, ring_hist, select_call>>

(***************************************************************************)
(* Configuration (.rodata)                                                 *)
(***************************************************************************)
nr_doms == rodata.nr_doms

nr_nodes == rodata.nr_nodes

cpu_dom_id_map == rodata.cpu_dom_id_map

fifo_sched == rodata.fifo_sched

kthreads_local == rodata.kthreads_local

direct_greedy_numa == rodata.direct_greedy_numa

greedy_threshold == rodata.greedy_threshold

greedy_threshold_x_numa == rodata.greedy_threshold_x_numa

Doms == 0 .. (nr_doms - 1)

cpu_to_dom_id(cpu) ==
    IF cpu \in CPUS THEN cpu_dom_id_map[cpu] ELSE MAX_DOMS

is_offline_cpu(cpu) == cpu_to_dom_id(cpu) > MAX_DOMS

OnlineCPUs == {c \in CPUS : ~is_offline_cpu(c)}

\* lb_domain->cpumask of domain d: the CPUs that cpu_dom_id_map puts in d.
DomCpumask(d) == {c \in CPUS : cpu_dom_id_map[c] = d}

\* dom_node_id(): the NUMA node of a domain.
dom_node_id(d) == IF d \in Doms THEN rodata.dom_node[d] ELSE NULL

\* lb_domain->node_cpumask of domain d: the CPUs of d's NUMA node.
NodeCpumask(d) ==
    {c \in OnlineCPUs : dom_node_id(cpu_dom_id_map[c]) = dom_node_id(d)}

\* all_cpumask: every CPU of every domain.
all_cpumask == OnlineCPUs

\* lookup_dom_ctx() / lb_domain_get(): the record of domain d, or NULL.
lookup_dom_ctx(d) == IF d \in Doms THEN d ELSE NULL

Max(a, b) == IF a > b THEN a ELSE b

(***************************************************************************)
(* Task records                                                            *)
(***************************************************************************)
\* The zeroed task_ctx that rusty_init_task() writes, with the task_struct
\* fields the callbacks read.  ctx: the task_ctx and the task_masks entry
\* exist.  mempolicy: NULL or the node the task's memory policy names.
NewTask(cpus, kthread, cpu) ==
    [ctx |-> FALSE, cpus_ptr |-> cpus, kthread |-> kthread, mempolicy |-> NULL,
     cpu |-> cpu, target_dom |-> 0, domc |-> NULL, cpumask |-> {},
     dom_mask |-> {}, preferred_dom_mask |-> {}, all_cpus |-> FALSE,
     dispatch_local |-> FALSE, dsq_vtime |-> 0,
     dom_active_tasks_gen |-> NULL]

\* dom_min_vruntime(): the vtime baseline of a domain.
dom_min_vruntime(d) == min_vruntime[d]

(***************************************************************************)
(* task_set_domain()                                                       *)
(***************************************************************************)
\* task_set_domain() without the bpf_cpumask_and() that rewrites the task's
\* working mask.
set_domain_keeps_mask(tk, new_dom_id, init_dsq_vtime, queued, race) ==
    IF ~tk.ctx THEN [ret |-> FALSE, err |-> TRUE, t |-> tk]
    ELSE IF lookup_dom_ctx(tk.target_dom) = NULL
    THEN [ret |-> FALSE, err |-> TRUE, t |-> tk]
    ELSE IF new_dom_id = NO_DOM_FOUND
    THEN [ret |-> ~queued, err |-> FALSE, t |-> [tk EXCEPT !.cpumask = {}]]
    ELSE IF lookup_dom_ctx(new_dom_id) = NULL
    THEN [ret |-> FALSE, err |-> FALSE, t |-> tk]
    ELSE
        LET d_cpumask == DomCpumask(new_dom_id)
            t1 == IF d_cpumask \cap tk.cpus_ptr # {}
                  THEN [tk EXCEPT !.target_dom = new_dom_id,
                                  !.domc = new_dom_id,
                                  !.dsq_vtime = dom_min_vruntime(new_dom_id)]
                  ELSE tk
            t2 == IF race = NULL THEN t1 ELSE [t1 EXCEPT !.target_dom = race]
        IN  [ret |-> (t2.target_dom = new_dom_id), err |-> FALSE, t |-> t2]

\* race: NULL, or the domain id that the balancer stores into
\* taskc->target_dom while the function runs, after the function's own
\* store and before its final read of the field.
task_set_domain(tk, new_dom_id, init_dsq_vtime, queued, race) ==
    IF ~tk.ctx THEN [ret |-> FALSE, err |-> TRUE, t |-> tk]
    ELSE IF lookup_dom_ctx(tk.target_dom) = NULL
    THEN [ret |-> FALSE, err |-> TRUE, t |-> tk]
    ELSE IF new_dom_id = NO_DOM_FOUND
    THEN [ret |-> ~queued, err |-> FALSE, t |-> [tk EXCEPT !.cpumask = {}]]
    ELSE IF lookup_dom_ctx(new_dom_id) = NULL
    THEN [ret |-> FALSE, err |-> FALSE, t |-> tk]
    ELSE
        LET d_cpumask == DomCpumask(new_dom_id)
            t1 == IF d_cpumask \cap tk.cpus_ptr # {}
                  THEN [tk EXCEPT !.target_dom = new_dom_id,
                                  !.domc = new_dom_id,
                                  !.dsq_vtime = dom_min_vruntime(new_dom_id),
                                  !.cpumask = d_cpumask \cap tk.cpus_ptr]
                  ELSE tk
            t2 == IF race = NULL THEN t1 ELSE [t1 EXCEPT !.target_dom = race]
        IN  [ret |-> (t2.target_dom = new_dom_id), err |-> FALSE, t |-> t2]

(***************************************************************************)
(* task_pick_domain() and its helpers                                      *)
(***************************************************************************)
cpumask_intersects_domain(cpumask, dom_id) ==
    IF lookup_dom_ctx(dom_id) = NULL THEN FALSE
    ELSE cpumask \cap DomCpumask(dom_id) # {}

node_dom_mask(node_id) == {d \in Doms : dom_node_id(d) = node_id}

\* The preferred-domain mask of a task whose memory policy names a home node.
task_set_preferred_mempolicy_dom_mask(tk) ==
    IF ~rodata.mempolicy_affinity \/ tk.mempolicy = NULL THEN {}
    ELSE node_dom_mask(tk.mempolicy)

\* The bpf_repeat(nr_doms) loop of task_pick_domain(): acc carries dom, the
\* domain examined next, the membership mask and the first / preferred
\* matches found so far.  Only the first dom + 1 can wrap around as a u32
\* (dom is the cursor value then, and below nr_doms afterwards).
RECURSIVE pick_scan(_, _, _, _)
pick_scan(n, cpumask, preferred_mask, acc) ==
    IF n = 0 THEN acc
    ELSE
        LET dom == acc.dom
            hit == cpumask_intersects_domain(cpumask, dom)
            first == IF hit /\ acc.first_dom = NO_DOM_FOUND
                     THEN dom ELSE acc.first_dom
            pref == IF hit /\ preferred_mask # {} /\ dom \in preferred_mask
                       /\ acc.preferred_dom = NO_DOM_FOUND
                    THEN dom ELSE acc.preferred_dom
        IN  pick_scan(n - 1, cpumask, preferred_mask,
                      [dom |-> (dom + 1) % nr_doms,
                       dom_mask |-> IF hit THEN acc.dom_mask \cup {dom}
                                    ELSE acc.dom_mask,
                       first_dom |-> first, preferred_dom |-> pref])

\* task_pick_domain() whose scan starts at the domain the cursor names, not
\* at the one after it.
task_pick_domain_at_cursor(tk, cpumask, cpu) ==
    LET cur == pcpu_ctx[cpu].dom_rr_cur
        pmask == task_set_preferred_mempolicy_dom_mask(tk)
        r == pick_scan(nr_doms, cpumask, pmask,
                       [dom |-> cur % nr_doms, dom_mask |-> {},
                        first_dom |-> NO_DOM_FOUND,
                        preferred_dom |-> NO_DOM_FOUND])
    IN  [dom |-> IF r.preferred_dom # NO_DOM_FOUND
                 THEN r.preferred_dom ELSE r.first_dom,
         t |-> [tk EXCEPT !.dom_mask = r.dom_mask,
                          !.preferred_dom_mask = pmask],
         cur |-> (cur + 1) % U32]

\* Returns the picked domain, the task with dom_mask and preferred_dom_mask
\* rewritten, and the caller CPU's advanced cursor.
task_pick_domain(tk, cpumask, cpu) ==
    LET cur == pcpu_ctx[cpu].dom_rr_cur
        pmask == task_set_preferred_mempolicy_dom_mask(tk)
        r == pick_scan(nr_doms, cpumask, pmask,
                       [dom |-> ((cur + 1) % U32) % nr_doms, dom_mask |-> {},
                        first_dom |-> NO_DOM_FOUND,
                        preferred_dom |-> NO_DOM_FOUND])
    IN  [dom |-> IF r.preferred_dom # NO_DOM_FOUND
                 THEN r.preferred_dom ELSE r.first_dom,
         t |-> [tk EXCEPT !.dom_mask = r.dom_mask,
                          !.preferred_dom_mask = pmask],
         cur |-> (cur + 1) % U32]

\* cur: the caller CPU's cursor afterwards; err: scx_bpf_error() was raised.
task_pick_and_set_domain(tk, cpumask, cpu, init_dsq_vtime, queued, race) ==
    LET pick == IF nr_doms > 1 THEN task_pick_domain(tk, cpumask, cpu)
                ELSE [dom |-> 0, t |-> tk, cur |-> pcpu_ctx[cpu].dom_rr_cur]
        set == task_set_domain(pick.t, pick.dom, init_dsq_vtime, queued, race)
    IN  [t |-> set.t, cur |-> pick.cur, err |-> set.err \/ ~set.ret]

\* rusty_set_cpumask(): the host has already stored cpumask in p->cpus_ptr.
rusty_set_cpumask(tk, cpumask, cpu, queued, race) ==
    IF ~tk.ctx
    THEN [t |-> tk, cur |-> pcpu_ctx[cpu].dom_rr_cur, err |-> FALSE]
    ELSE
        LET r == task_pick_and_set_domain(tk, cpumask, cpu, FALSE, queued, race)
        IN  [r EXCEPT !.t.all_cpus = (all_cpumask \subseteq cpumask)]

\* rusty_init_task(): allocation succeeds; a fresh context and an empty
\* task cpumask are installed, then a domain is picked.
rusty_init_task(tk, cpu) ==
    LET fresh == [NewTask(tk.cpus_ptr, tk.kthread, tk.cpu)
                     EXCEPT !.ctx = TRUE, !.mempolicy = tk.mempolicy]
    IN  task_pick_and_set_domain(fresh, tk.cpus_ptr, cpu, TRUE, FALSE, NULL)

(***************************************************************************)
(* refresh_tune_params()                                                   *)
(***************************************************************************)
SetBit(mask, cpu, on) == IF on THEN mask \cup {cpu} ELSE mask \ {cpu}

\* The bpf_for(cpu, 0, nr_cpu_ids) loop: tn is the tune record so far.
RECURSIVE refresh_loop(_, _)
refresh_loop(cpu, tn) ==
    IF cpu >= nr_cpu_ids THEN tn
    ELSE IF is_offline_cpu(cpu) THEN refresh_loop(cpu + 1, tn)
    ELSE IF lookup_dom_ctx(cpu_to_dom_id(cpu)) = NULL THEN tn
    ELSE
        LET d == cpu_to_dom_id(cpu)
            dg == cpu \in tune_input.direct_greedy_cpumask
            kg == cpu \in tune_input.kick_greedy_cpumask
        IN  refresh_loop(cpu + 1,
                [tn EXCEPT
                   !.direct_greedy_cpumask = SetBit(@, cpu, dg),
                   !.dom_direct_greedy[d] = SetBit(@, cpu, dg),
                   !.kick_greedy_cpumask = SetBit(@, cpu, kg)])

\* refresh_tune_params() without the generation test: every call derives the
\* masks again.
refresh_tune_params_every_call ==
    refresh_loop(0, [tune EXCEPT !.gen = tune_input.gen,
                                 !.slice_ns = tune_input.slice_ns])

refresh_tune_params ==
    IF tune.gen = tune_input.gen THEN tune
    ELSE refresh_loop(0, [tune EXCEPT !.gen = tune_input.gen,
                                      !.slice_ns = tune_input.slice_ns])

(***************************************************************************)
(* Host idle tracking, as the scx_bpf_*idle* helpers expose it             *)
(***************************************************************************)
\* scx_bpf_get_idle_smtmask(): CPUs whose whole physical core is idle.
idle_smtmask ==
    {c \in idle_cpumask :
        Sibling(c) \in OnlineCPUs => Sibling(c) \in idle_cpumask}

(***************************************************************************)
(* try_sync_wakeup() and rusty_select_cpu()                                *)
(***************************************************************************)
\* A result of select_cpu: the return value, the exit taken ("direct",
\* "fallback" or "enoent"), the statistic it counted, and the CPU whose idle
\* bit it cleared (NULL for none).
SelRes(ret, exit, stat, claimed) ==
    [ret |-> ret, exit |-> exit, stat |-> stat, claimed |-> claimed]

SelEnoent == SelRes(0 - ENOENT, "enoent", "none", NULL)

\* env: cur_cpu (the CPU the callback runs on), cur_exiting (current has
\* PF_EXITING), miss (the lookups that fail in this call).
try_sync_wakeup(tk, prev_cpu, env) ==
    LET cpu == env.cur_cpu
        dom_id == pcpu_ctx[cpu].dom_id
        d_cpumask == DomCpumask(dom_id)
        share_llc == prev_cpu \in d_cpumask
        has_idle == d_cpumask \cap idle_cpumask # {}
    IN  IF "pcpu_ctx" \in env.miss THEN SelEnoent
        ELSE IF lookup_dom_ctx(dom_id) = NULL \/ "sync_dom" \in env.miss
        THEN SelEnoent
        ELSE IF share_llc /\ prev_cpu \in idle_cpumask
        THEN SelRes(prev_cpu, "direct", "SYNC_PREV_IDLE", prev_cpu)
        ELSE IF has_idle /\ cpu \in tk.cpus_ptr /\ ~env.cur_exiting
                /\ tk.target_dom < MAX_DOMS /\ Len(local_dsq[cpu]) = 0
        THEN SelRes(cpu, "direct", "WAKE_SYNC", NULL)
        ELSE SelEnoent

\* scx_bpf_pick_idle_cpu(): the results of claiming one idle CPU of cands.
PickIdle(cands, stat) == {SelRes(c, "direct", stat, c) : c \in cands}

\* Marks that a block placed nothing and the call goes on to the next rule.
SelNext == SelRes(0, "next", "none", NULL)

\* The greedy placement block (lines 523-620).  tn: the refreshed tuning.
select_greedy(tk, prev_cpu, env, tn) ==
    LET dom_id == cpu_to_dom_id(prev_cpu)
        offline == is_offline_cpu(prev_cpu)
        domc == IF offline THEN NULL ELSE lookup_dom_ctx(dom_id)
        \* domc->id read through a null dom_ptr yields an arbitrary id
        ids == IF domc = NULL THEN Doms \cup {MAX_DOMS} ELSE {domc}
        has_idle_cores == idle_smtmask # {}
        tiers(lb) ==
            LET narrowed == ~direct_greedy_numa /\ domc # NULL
                tmp == IF narrowed
                       THEN NodeCpumask(lb) \cap tn.direct_greedy_cpumask
                       ELSE tn.direct_greedy_cpumask
                own == tn.dom_direct_greedy[lb]
            IN  IF narrowed /\ ({"node_mask", "tmp_mask"} \cap env.miss # {})
                THEN {SelEnoent}
                ELSE IF has_idle_cores /\ domc # NULL
                        /\ own \cap idle_smtmask # {}
                THEN PickIdle(own \cap idle_smtmask, "DIRECT_GREEDY")
                ELSE IF has_idle_cores /\ tmp \cap idle_smtmask # {}
                THEN PickIdle(tmp \cap idle_smtmask, "DIRECT_GREEDY_FAR")
                ELSE IF domc # NULL /\ own \cap idle_cpumask # {}
                THEN PickIdle(own \cap idle_cpumask, "DIRECT_GREEDY")
                ELSE IF tmp \cap idle_cpumask # {}
                THEN PickIdle(tmp \cap idle_cpumask, "DIRECT_GREEDY_FAR")
                ELSE {SelNext}
    IN  IF ~(tk.all_cpus /\ tn.direct_greedy_cpumask # {}) THEN {SelNext}
        ELSE IF ~offline /\ (domc = NULL \/ "prev_dom" \in env.miss)
        THEN {SelEnoent}
        ELSE UNION {IF lookup_dom_ctx(id) = NULL \/ "lb_domain" \in env.miss
                    THEN {SelEnoent} ELSE tiers(id) : id \in ids}

\* The exit at lines 628-634: the CPU returned when the task is to be queued
\* on its domain's queue.
select_fallback(tk, prev_cpu) ==
    IF prev_cpu \in tk.cpumask
    THEN {SelRes(prev_cpu, "fallback", "none", NULL)}
    ELSE IF tk.cpumask = {}
    THEN {SelRes(prev_cpu, "fallback", "none", NULL)}
    ELSE {SelRes(c, "fallback", "none", NULL) : c \in tk.cpumask}

\* The pinned shortcut (lines 433-441).
select_pinned(tk, prev_cpu) ==
    SelRes(prev_cpu, "direct",
           IF kthreads_local /\ tk.kthread THEN "DIRECT_DISPATCH" ELSE "PINNED",
           NULL)

\* The set of results one call may produce (the helpers that pick a CPU may
\* pick any candidate).  The tuning has been refreshed into tn.
rusty_select_cpu(tk, prev_cpu, wake_sync, env, tn) ==
    LET sync == try_sync_wakeup(tk, prev_cpu, env)
        has_idle_cores == idle_smtmask # {}
        prev_domestic == prev_cpu \in tk.cpumask
        prev_idle == prev_cpu \in idle_cpumask
        greedy == select_greedy(tk, prev_cpu, env, tn)
    IN  IF ~tk.ctx \/ "task_mask" \in env.miss THEN {SelEnoent}
        ELSE IF Cardinality(tk.cpus_ptr) = 1
        THEN {select_pinned(tk, prev_cpu)}
        ELSE IF wake_sync /\ sync.ret >= 0 THEN {sync}
        ELSE IF prev_domestic /\ prev_cpu \in idle_smtmask
        THEN {SelRes(prev_cpu, "direct", "PREV_IDLE", prev_cpu)}
        ELSE IF ~prev_domestic /\ prev_cpu \in tn.direct_greedy_cpumask
                /\ prev_cpu \in idle_smtmask
        THEN {SelRes(prev_cpu, "direct", "GREEDY_IDLE", prev_cpu)}
        ELSE IF has_idle_cores /\ tk.cpumask \cap idle_smtmask # {}
        THEN PickIdle(tk.cpumask \cap idle_smtmask, "DIRECT_DISPATCH")
        ELSE IF prev_domestic /\ prev_idle
        THEN {SelRes(prev_cpu, "direct", "DIRECT_DISPATCH", prev_cpu)}
        ELSE IF tk.cpumask \cap idle_cpumask # {}
        THEN PickIdle(tk.cpumask \cap idle_cpumask, "DIRECT_DISPATCH")
        ELSE (greedy \ {SelNext})
             \cup (IF SelNext \in greedy THEN select_fallback(tk, prev_cpu)
                   ELSE {})

(***************************************************************************)
(* rusty_select_cpu() step by step: between two accesses of one call to    *)
(* the tuning state or to the host's idle masks, the calls of other CPUs   *)
(* make theirs.  For a wakeup without SCX_WAKE_SYNC, all lookups found.    *)
(***************************************************************************)
\* scx_bpf_test_and_clear_cpu_idle() that tests the idle bit and leaves it
\* set.
test_cpu_idle_and_leave(cpu, idle) == [ok |-> cpu \in idle, idle |-> idle]

\* scx_bpf_test_and_clear_cpu_idle(): one atomic operation on the idle mask.
test_and_clear_cpu_idle(cpu, idle) ==
    [ok |-> cpu \in idle, idle |-> idle \ {cpu}]

\* One step of refresh_tune_params() (line 428) in the call c: the test of
\* the generation, the two stores, then one iteration of the loop per step,
\* each reading tune_input as it is at that moment.
refresh_step(c, tn) ==
    IF c.pc = "refresh_test"
    THEN [c |-> [c EXCEPT !.pc = IF tn.gen = tune_input.gen THEN "entry"
                                 ELSE "refresh_gen"],
          tn |-> tn]
    ELSE IF c.pc = "refresh_gen"
    THEN [c |-> [c EXCEPT !.pc = "refresh_slice"],
          tn |-> [tn EXCEPT !.gen = tune_input.gen]]
    ELSE IF c.pc = "refresh_slice"
    THEN [c |-> [c EXCEPT !.pc = "refresh_cpu", !.cpu = 0],
          tn |-> [tn EXCEPT !.slice_ns = tune_input.slice_ns]]
    ELSE
        LET cpu == c.cpu
            d == cpu_to_dom_id(cpu)
            dg == cpu \in tune_input.direct_greedy_cpumask
            kg == cpu \in tune_input.kick_greedy_cpumask
            on == [c EXCEPT !.cpu = cpu + 1,
                            !.pc = IF cpu + 1 >= nr_cpu_ids THEN "entry"
                                   ELSE "refresh_cpu"]
        IN  IF is_offline_cpu(cpu) THEN [c |-> on, tn |-> tn]
            ELSE IF lookup_dom_ctx(d) = NULL
            THEN [c |-> [c EXCEPT !.pc = "entry"], tn |-> tn]
            ELSE [c |-> on,
                  tn |-> [tn EXCEPT
                            !.direct_greedy_cpumask = SetBit(@, cpu, dg),
                            !.dom_direct_greedy[d] = SetBit(@, cpu, dg),
                            !.kick_greedy_cpumask = SetBit(@, cpu, kg)]]

\* One step of the placement (lines 430-634) in the call c of task tk: the
\* calls after it (pc "done" with the result res) or its next position, and
\* the idle mask it leaves.  The idle picks of the greedy block are taken at
\* one instant.
select_step(tk, c, tn) ==
    LET prev_cpu == c.prev_cpu
        prev_domestic == prev_cpu \in tk.cpumask
        go(pc) == [c |-> [c EXCEPT !.pc = pc], idle |-> idle_cpumask]
        done(r) == [c |-> [c EXCEPT !.pc = "done", !.res = r],
                    idle |-> idle_cpumask \ {r.claimed}]
        claim == test_and_clear_cpu_idle(prev_cpu, idle_cpumask)
        claimed(stat) ==
            [c |-> [c EXCEPT !.pc = "done",
                             !.res = SelRes(prev_cpu, "direct", stat, prev_cpu)],
             idle |-> claim.idle]
        env == [cur_cpu |-> c.cur_cpu, cur_exiting |-> FALSE, miss |-> {}]
    IN  IF c.pc = "entry"
        THEN IF ~tk.ctx THEN {done(SelEnoent)}
             ELSE IF Cardinality(tk.cpus_ptr) = 1
             THEN {done(select_pinned(tk, prev_cpu))}
             ELSE {[c |-> [c EXCEPT !.pc = "prev_test",
                                    !.has_idle_cores = (idle_smtmask # {})],
                    idle |-> idle_cpumask]}
        ELSE IF c.pc = "prev_test"
        THEN IF (prev_domestic \/ prev_cpu \in tn.direct_greedy_cpumask)
                /\ prev_cpu \in idle_smtmask
             THEN {go("prev_claim")} ELSE {go("core")}
        ELSE IF c.pc = "prev_claim"
        THEN IF claim.ok
             THEN {claimed(IF prev_domestic THEN "PREV_IDLE"
                           ELSE "GREEDY_IDLE")}
             ELSE {go("core")}
        ELSE IF c.pc = "core"
        THEN IF c.has_idle_cores /\ tk.cpumask \cap idle_smtmask # {}
             THEN {done(r) : r \in PickIdle(tk.cpumask \cap idle_smtmask,
                                            "DIRECT_DISPATCH")}
             ELSE {go("prev_idle")}
        ELSE IF c.pc = "prev_idle"
        THEN IF prev_domestic /\ claim.ok
             THEN {claimed("DIRECT_DISPATCH")} ELSE {go("any")}
        ELSE IF c.pc = "any"
        THEN IF tk.cpumask \cap idle_cpumask # {}
             THEN {done(r) : r \in PickIdle(tk.cpumask \cap idle_cpumask,
                                            "DIRECT_DISPATCH")}
             ELSE {go("greedy")}
        ELSE LET greedy == select_greedy(tk, prev_cpu, env, tn)
             IN  {done(r) : r \in (greedy \ {SelNext})
                     \cup (IF SelNext \in greedy
                           THEN select_fallback(tk, prev_cpu) ELSE {})}

(***************************************************************************)
(* Dispatch queues, as the scx_bpf_dsq_* helpers expose them               *)
(***************************************************************************)
\* scx_bpf_dsq_insert(): append at the tail.
dsq_insert(q, t) == Append(q, t)

\* scx_bpf_dsq_insert_vtime(): after every queued task whose vtime is not
\* larger (ascending vtime, FIFO among equals).  vt: the vtime of each task.
dsq_insert_vtime(q, t, v, vt) ==
    LET n == Cardinality({i \in 1 .. Len(q) : vt[q[i]] <= v})
    IN  SubSeq(q, 1, n) \o <<t>> \o SubSeq(q, n + 1, Len(q))

\* The host moves a queued task to a CPU only if the task may run there.
CanRun(t, cpu) == cpu \in task[t].cpus_ptr \/ task[t].cpu = cpu

\* scx_bpf_dsq_move_to_local(): the position in q of the task it moves to
\* cpu's local queue, 0 when it moves none.
move_to_local(q, cpu) ==
    LET ok == {i \in 1 .. Len(q) : CanRun(q[i], cpu)}
    IN  IF ok = {} THEN 0 ELSE CHOOSE i \in ok : \A j \in ok : i <= j

Remove(q, i) == SubSeq(q, 1, i - 1) \o SubSeq(q, i + 1, Len(q))

(***************************************************************************)
(* Virtual time                                                            *)
(***************************************************************************)
\* place_task_dl(): floors the vtime at the domain's baseline and names the
\* queue: that of the task's recorded domain id, in vtime order.
place_task_dl(tk) ==
    [tk EXCEPT !.dsq_vtime = Max(@, dom_min_vruntime(tk.domc))]

\* running_update_vtime(): the task's vtime is unchanged at run-start; the
\* domain's baseline moves up to it.
running_update_vtime(tk) == Max(dom_min_vruntime(tk.domc), tk.dsq_vtime)

\* stopping_update_vtime(): the vtime advances by the weighted run time.
stopping_update_vtime(tk, delta) == [tk EXCEPT !.dsq_vtime = @ + delta]

(***************************************************************************)
(* rusty_enqueue()                                                         *)
(***************************************************************************)
NoRace == [at |-> "none", dom |-> 0]

\* race: a balancer store to taskc->target_dom landing inside the call,
\* either inside task_set_domain ("set_domain") or just before the domain
\* queue is named ("insert").
\* Result: the task afterwards; the queue insertions made, in order, each
\* "local" (SCX_DSQ_LOCAL, the queue of the task's CPU) or "dom" with the
\* queue id; the mask a CPU is kicked from (empty: no kick); whether the
\* migration branch was taken; the statistic counted.
EnqRes(tk, ins, kick, migrated, stat) ==
    [t |-> tk, ins |-> ins, kick |-> kick, migrated |-> migrated,
     stat |-> stat]

Ins(kind, id) == [kind |-> kind, id |-> id]

\* The dom_queue label (lines 697-701).  before: insertions already made.
enqueue_dom_queue(tk, race, before, kick, migrated, stat) ==
    LET t1 == IF race.at = "insert" THEN [tk EXCEPT !.target_dom = race.dom]
              ELSE tk
        t2 == IF fifo_sched THEN t1 ELSE place_task_dl(t1)
    IN  EnqRes(t2, Append(before, Ins("dom", t2.target_dom)), kick, migrated,
               stat)

\* rusty_enqueue() with the return that ends the local-dispatch branch left
\* out: the branch runs on into the dom_queue label.
enqueue_local_falls_through(tk, race) ==
    IF ~tk.ctx \/ tk.domc = NULL
    THEN EnqRes(tk, <<>>, {}, FALSE, "none")
    ELSE
        LET mig == tk.domc # tk.target_dom
            set == task_set_domain(tk, tk.domc, FALSE, TRUE,
                       IF race.at = "set_domain" THEN race.dom ELSE NULL)
            t1 == IF mig THEN set.t ELSE tk
        IN  IF mig /\ set.ret
            THEN enqueue_dom_queue([t1 EXCEPT !.dispatch_local = FALSE],
                                   race, <<>>, t1.cpumask, TRUE,
                                   "LOAD_BALANCE")
            ELSE IF t1.dispatch_local
            THEN enqueue_dom_queue([t1 EXCEPT !.dispatch_local = FALSE],
                                   race, <<Ins("local", t1.cpu)>>, {}, FALSE,
                                   "none")
            ELSE IF t1.cpu \notin t1.cpumask
            THEN enqueue_dom_queue(t1, race, <<>>, t1.cpumask, FALSE,
                                   "REPATRIATE")
            ELSE enqueue_dom_queue(t1, race, <<>>, {}, FALSE, "none")

\* rusty_enqueue() with the store that clears the flag on the local-dispatch
\* branch left out.
enqueue_keeps_flag(tk, race) ==
    IF ~tk.ctx \/ tk.domc = NULL
    THEN EnqRes(tk, <<>>, {}, FALSE, "none")
    ELSE
        LET mig == tk.domc # tk.target_dom
            set == task_set_domain(tk, tk.domc, FALSE, TRUE,
                       IF race.at = "set_domain" THEN race.dom ELSE NULL)
            t1 == IF mig THEN set.t ELSE tk
        IN  IF mig /\ set.ret
            THEN enqueue_dom_queue([t1 EXCEPT !.dispatch_local = FALSE],
                                   race, <<>>, t1.cpumask, TRUE,
                                   "LOAD_BALANCE")
            ELSE IF t1.dispatch_local
            THEN EnqRes(t1, <<Ins("local", t1.cpu)>>, {}, FALSE, "none")
            ELSE IF t1.cpu \notin t1.cpumask
            THEN enqueue_dom_queue(t1, race, <<>>, t1.cpumask, FALSE,
                                   "REPATRIATE")
            ELSE enqueue_dom_queue(t1, race, <<>>, {}, FALSE, "none")

\* rusty_enqueue() without the kick that precedes the domain-queue insertion
\* of a task sitting on a foreign CPU.
enqueue_without_repatriate_kick(tk, race) ==
    IF ~tk.ctx \/ tk.domc = NULL
    THEN EnqRes(tk, <<>>, {}, FALSE, "none")
    ELSE
        LET mig == tk.domc # tk.target_dom
            set == task_set_domain(tk, tk.domc, FALSE, TRUE,
                       IF race.at = "set_domain" THEN race.dom ELSE NULL)
            t1 == IF mig THEN set.t ELSE tk
        IN  IF mig /\ set.ret
            THEN enqueue_dom_queue([t1 EXCEPT !.dispatch_local = FALSE],
                                   race, <<>>, t1.cpumask, TRUE,
                                   "LOAD_BALANCE")
            ELSE IF t1.dispatch_local
            THEN EnqRes([t1 EXCEPT !.dispatch_local = FALSE],
                        <<Ins("local", t1.cpu)>>, {}, FALSE, "none")
            ELSE IF t1.cpu \notin t1.cpumask
            THEN enqueue_dom_queue(t1, race, <<>>, {}, FALSE, "REPATRIATE")
            ELSE enqueue_dom_queue(t1, race, <<>>, {}, FALSE, "none")

rusty_enqueue(tk, race) ==
    IF ~tk.ctx \/ tk.domc = NULL
    THEN EnqRes(tk, <<>>, {}, FALSE, "none")
    ELSE
        LET mig == tk.domc # tk.target_dom
            set == task_set_domain(tk, tk.domc, FALSE, TRUE,
                       IF race.at = "set_domain" THEN race.dom ELSE NULL)
            t1 == IF mig THEN set.t ELSE tk
        IN  IF mig /\ set.ret
            THEN enqueue_dom_queue([t1 EXCEPT !.dispatch_local = FALSE],
                                   race, <<>>, t1.cpumask, TRUE,
                                   "LOAD_BALANCE")
            ELSE IF t1.dispatch_local
            THEN EnqRes([t1 EXCEPT !.dispatch_local = FALSE],
                        <<Ins("local", t1.cpu)>>, {}, FALSE, "none")
            ELSE IF t1.cpu \notin t1.cpumask
            THEN enqueue_dom_queue(t1, race, <<>>, t1.cpumask, FALSE,
                                   "REPATRIATE")
            ELSE enqueue_dom_queue(t1, race, <<>>, {}, FALSE, "none")

\* The kick-greedy probe that ends rusty_enqueue (lines 718-733): the CPUs
\* one of which is kicked after a domain-queue insertion.
enqueue_kick_greedy(tk, tn) ==
    IF tk.all_cpus THEN tn.kick_greedy_cpumask \cap idle_cpumask ELSE {}

(***************************************************************************)
(* rusty_dispatch()                                                        *)
(***************************************************************************)
\* One steal scan (a bpf_repeat(nr_doms - 1) loop).  acc: the cursor, the
\* domains probed so far, and the queue a task was moved from (NULL: none).
\* xnuma selects the second loop's skip condition.
RECURSIVE steal_scan(_, _, _, _)
steal_scan(n, cpu, xnuma, acc) ==
    IF n = 0 \/ acc.from # NULL THEN acc
    ELSE
        LET curr_dom == cpu_to_dom_id(cpu)
            my_node == dom_node_id(curr_dom)
            dom == acc.cur % nr_doms
            cur1 == (acc.cur + 1) % U32
            skip == IF xnuma
                    THEN dom_node_id(dom) = my_node \/ dom = curr_dom
                         \/ Len(dom_dsq[dom]) >= greedy_threshold_x_numa
                    ELSE dom = curr_dom \/ dom_node_id(dom) # my_node
            got == ~skip /\ move_to_local(dom_dsq[dom], cpu) # 0
        IN  steal_scan(n - 1, cpu, xnuma,
                [cur |-> cur1,
                 probes |-> IF skip THEN acc.probes ELSE Append(acc.probes, dom),
                 from |-> IF got THEN dom ELSE NULL])

\* rusty_dispatch() with both steal loops repeated nr_doms times instead of
\* nr_doms - 1 times.
dispatch_scans_every_domain(cpu) ==
    LET curr_dom == cpu_to_dom_id(cpu)
        cur0 == pcpu_ctx[cpu].dom_rr_cur
        none == [from |-> NULL, cur |-> cur0, local |-> <<>>, xnuma |-> <<>>,
                 stat |-> "none"]
        s1 == steal_scan(nr_doms, cpu, FALSE,
                         [cur |-> cur0, probes |-> <<>>, from |-> NULL])
        s2 == steal_scan(nr_doms, cpu, TRUE,
                         [cur |-> s1.cur, probes |-> <<>>, from |-> NULL])
    IN  IF is_offline_cpu(cpu) THEN none
        ELSE IF move_to_local(dom_dsq[curr_dom], cpu) # 0
        THEN [none EXCEPT !.from = curr_dom, !.stat = "DSQ_DISPATCH"]
        ELSE IF greedy_threshold = 0 THEN none
        ELSE IF s1.from # NULL
        THEN [from |-> s1.from, cur |-> s1.cur, local |-> s1.probes,
              xnuma |-> <<>>, stat |-> "GREEDY_LOCAL"]
        ELSE IF greedy_threshold_x_numa = 0 \/ nr_nodes = 1
        THEN [none EXCEPT !.cur = s1.cur, !.local = s1.probes]
        ELSE [from |-> s2.from, cur |-> s2.cur, local |-> s1.probes,
              xnuma |-> s2.probes,
              stat |-> IF s2.from # NULL THEN "GREEDY_XNUMA" ELSE "none"]

\* rusty_dispatch() that goes to the steal scans without trying the CPU's
\* own domain queue.
dispatch_skips_own_queue(cpu) ==
    LET cur0 == pcpu_ctx[cpu].dom_rr_cur
        none == [from |-> NULL, cur |-> cur0, local |-> <<>>, xnuma |-> <<>>,
                 stat |-> "none"]
        s1 == steal_scan(nr_doms - 1, cpu, FALSE,
                         [cur |-> cur0, probes |-> <<>>, from |-> NULL])
        s2 == steal_scan(nr_doms - 1, cpu, TRUE,
                         [cur |-> s1.cur, probes |-> <<>>, from |-> NULL])
    IN  IF is_offline_cpu(cpu) THEN none
        ELSE IF greedy_threshold = 0 THEN none
        ELSE IF s1.from # NULL
        THEN [from |-> s1.from, cur |-> s1.cur, local |-> s1.probes,
              xnuma |-> <<>>, stat |-> "GREEDY_LOCAL"]
        ELSE IF greedy_threshold_x_numa = 0 \/ nr_nodes = 1
        THEN [none EXCEPT !.cur = s1.cur, !.local = s1.probes]
        ELSE [from |-> s2.from, cur |-> s2.cur, local |-> s1.probes,
              xnuma |-> s2.probes,
              stat |-> IF s2.from # NULL THEN "GREEDY_XNUMA" ELSE "none"]

\* Result: the queue a task is moved from (NULL: none), the cursor
\* afterwards, the domains probed by each scan, the statistic counted.
rusty_dispatch(cpu) ==
    LET curr_dom == cpu_to_dom_id(cpu)
        cur0 == pcpu_ctx[cpu].dom_rr_cur
        none == [from |-> NULL, cur |-> cur0, local |-> <<>>, xnuma |-> <<>>,
                 stat |-> "none"]
        s1 == steal_scan(nr_doms - 1, cpu, FALSE,
                         [cur |-> cur0, probes |-> <<>>, from |-> NULL])
        s2 == steal_scan(nr_doms - 1, cpu, TRUE,
                         [cur |-> s1.cur, probes |-> <<>>, from |-> NULL])
    IN  IF is_offline_cpu(cpu) THEN none
        ELSE IF move_to_local(dom_dsq[curr_dom], cpu) # 0
        THEN [none EXCEPT !.from = curr_dom, !.stat = "DSQ_DISPATCH"]
        ELSE IF greedy_threshold = 0 THEN none
        ELSE IF s1.from # NULL
        THEN [from |-> s1.from, cur |-> s1.cur, local |-> s1.probes,
              xnuma |-> <<>>, stat |-> "GREEDY_LOCAL"]
        ELSE IF greedy_threshold_x_numa = 0 \/ nr_nodes = 1
        THEN [none EXCEPT !.cur = s1.cur, !.local = s1.probes]
        ELSE [from |-> s2.from, cur |-> s2.cur, local |-> s1.probes,
              xnuma |-> s2.probes,
              stat |-> IF s2.from # NULL THEN "GREEDY_XNUMA" ELSE "none"]

(***************************************************************************)
(* Configurations and initial values                                       *)
(***************************************************************************)
\* cpu_dom_id_map and the domains' nodes for 1, 2 and 3 domains.  With three
\* domains CPU 3 is offline.
TopoMap(n) ==
    IF n = 1 THEN [c \in CPUS |-> 0]
    ELSE IF n = 2 THEN [c \in CPUS |-> c \div 2]
    ELSE [c \in CPUS |-> IF c < 3 THEN c ELSE OFFLINE_DOM]

TopoNode(n, nodes) ==
    [d \in 0 .. (n - 1) |-> IF nodes = 1 THEN 0 ELSE (IF d = n - 1 THEN 1 ELSE 0)]

Rodata(n, nodes, fifo, kl, dgn, gt, gtx) ==
    [nr_doms |-> n, nr_nodes |-> nodes, cpu_dom_id_map |-> TopoMap(n),
     dom_node |-> TopoNode(n, nodes), fifo_sched |-> fifo,
     kthreads_local |-> kl, direct_greedy_numa |-> dgn,
     mempolicy_affinity |-> FALSE,
     greedy_threshold |-> gt, greedy_threshold_x_numa |-> gtx]

\* initialize_cpu(): the cursor starts at the CPU's id, the resident domain
\* is the one holding the CPU; an offline CPU's record stays zeroed.
InitPcpu(rd) ==
    [c \in CPUS |->
        IF rd.cpu_dom_id_map[c] > MAX_DOMS
        THEN [dom_rr_cur |-> 0, dom_id |-> 0]
        ELSE [dom_rr_cur |-> c % U32, dom_id |-> rd.cpu_dom_id_map[c]]]

TuneZero(n) ==
    [gen |-> 0, slice_ns |-> 0, direct_greedy_cpumask |-> {},
     kick_greedy_cpumask |-> {}, dom_direct_greedy |-> [d \in 0 .. (n - 1) |-> {}]]

TuneInput(gen, slice, dg, kg) ==
    [gen |-> gen, slice_ns |-> slice, direct_greedy_cpumask |-> dg,
     kick_greedy_cpumask |-> kg]

\* No rusty_select_cpu call is in flight for the task.
NotSelecting ==
    [pc |-> "none", prev_cpu |-> NULL, cur_cpu |-> NULL, cpu |-> 0,
     has_idle_cores |-> FALSE, res |-> SelEnoent]

\* The record of the last callback.  pre, prest: the task and where the host
\* had it before the call; miss: the lookups that failed in the call; nins:
\* the number of queue insertions the call made; ok: a boolean return value;
\* probes: the domains a dispatch probed in its same-node and its cross-node
\* scan, in order.
ObsNone ==
    [op |-> "none", task |-> "", cpu |-> NULL, prev_cpu |-> NULL,
     arg |-> NULL, ret |-> NULL, exit |-> "", stat |-> "none", kind |-> "",
     id |-> NULL, kick |-> NULL, gkick |-> NULL, migrated |-> FALSE,
     err |-> FALSE, ok |-> FALSE, miss |-> {}, nins |-> 0, prest |-> "",
     probes |-> <<<<>>, <<>>>>, pre |-> NewTask({}, FALSE, NULL)]

\* Affinity masks the host hands to init_task and set_cpumask.
AffinityMasks == {{0, 1, 2, 3}, {0, 1}, {2}, {1, 2}}

(***************************************************************************)
(* rusty_running(): the ring of recently active tasks of a domain          *)
(***************************************************************************)
RingSlots == 0 .. (MAX_DOM_ACTIVE_TPTRS - 1)

\* A domain's active_tasks as the zero-filled dom_ctx has it.
ActiveTasksZero ==
    [gen |-> 0, write_idx |-> 0, tasks |-> [i \in RingSlots |-> ""]]

\* No rusty_running call in flight.  Otherwise: need, whether the call
\* records the task; dom, the domain the task is in; fetched, the value the
\* fetch-and-add returned; idx, the slot computed from it; dap_gen, the
\* generation read before.
NotRecording ==
    [need |-> FALSE, dom |-> NULL, fetched |-> NULL, idx |-> NULL,
     dap_gen |-> NULL]

RingHistZero == [starts |-> <<>>, writes |-> <<>>]

\* n domains, tasks ts, and history kept for the domains in watched.
RingStart(n, ts, watched) ==
    /\ active_tasks = [d \in 0 .. (n - 1) |-> ActiveTasksZero]
    /\ recording = [t \in ts |-> NotRecording]
    /\ ring_hist = [d \in watched |-> RingHistZero]

\* The last n elements of a sequence (all of it when it is shorter).
LastN(q, n) == IF Len(q) <= n THEN q ELSE SubSeq(q, Len(q) - n + 1, Len(q))

\* rusty_running() reading the generation with a plain load of the write
\* cursor in place of the fetch-and-add: the cursor stays where it is.
running_fetch_plain_load(tk, at) ==
    IF ~tk.ctx THEN [exit |-> "noctx", r |-> NotRecording, at |-> at]
    ELSE IF tk.domc = NULL THEN [exit |-> "error", r |-> NotRecording, at |-> at]
    ELSE LET a == at[tk.domc]
         IN  IF tk.dom_active_tasks_gen = a.gen
             THEN [exit |-> "ok",
                   r |-> [NotRecording EXCEPT !.dom = tk.domc,
                                              !.dap_gen = a.gen],
                   at |-> at]
             ELSE [exit |-> "ok",
                   r |-> [need |-> TRUE, dom |-> tk.domc,
                          fetched |-> a.write_idx,
                          idx |-> a.write_idx % MAX_DOM_ACTIVE_TPTRS,
                          dap_gen |-> a.gen],
                   at |-> at]

\* rusty_running() up to the fetch-and-add: the task context and domain
\* lookups, the read of the ring's generation, and for a task not yet
\* recorded in this generation the atomic increment of the write cursor and
\* the slot computed from the value it returned.
running_fetch(tk, at) ==
    IF ~tk.ctx THEN [exit |-> "noctx", r |-> NotRecording, at |-> at]
    ELSE IF tk.domc = NULL THEN [exit |-> "error", r |-> NotRecording, at |-> at]
    ELSE LET a == at[tk.domc]
         IN  IF tk.dom_active_tasks_gen = a.gen
             THEN [exit |-> "ok",
                   r |-> [NotRecording EXCEPT !.dom = tk.domc,
                                              !.dap_gen = a.gen],
                   at |-> at]
             ELSE [exit |-> "ok",
                   r |-> [need |-> TRUE, dom |-> tk.domc,
                          fetched |-> a.write_idx,
                          idx |-> a.write_idx % MAX_DOM_ACTIVE_TPTRS,
                          dap_gen |-> a.gen],
                   at |-> [at EXCEPT ![tk.domc].write_idx = @ + 1]]

\* rusty_running() storing the task into the first slot whatever the index.
running_store_first_slot(t, tk, r, at) ==
    IF ~r.need THEN [err |-> FALSE, t |-> tk, at |-> at]
    ELSE IF r.idx >= MAX_DOM_ACTIVE_TPTRS THEN [err |-> TRUE, t |-> tk, at |-> at]
    ELSE [err |-> FALSE,
          t |-> [tk EXCEPT !.dom_active_tasks_gen = r.dap_gen],
          at |-> [at EXCEPT ![r.dom].tasks[0] = t]]

\* rusty_running() after the fetch-and-add: the bounds check, the store of
\* the task into the slot and of the generation into the task context.
running_store(t, tk, r, at) ==
    IF ~r.need THEN [err |-> FALSE, t |-> tk, at |-> at]
    ELSE IF r.idx >= MAX_DOM_ACTIVE_TPTRS THEN [err |-> TRUE, t |-> tk, at |-> at]
    ELSE [err |-> FALSE,
          t |-> [tk EXCEPT !.dom_active_tasks_gen = r.dap_gen],
          at |-> [at EXCEPT ![r.dom].tasks[r.idx] = t]]

\* History kept beside the ring: a run-start of t on domain d.
hist_start(h, d, t) ==
    IF d \notin DOMAIN h THEN h
    ELSE [h EXCEPT ![d].starts = LastN(Append(@, t), MAX_DOM_ACTIVE_TPTRS)]

\* History kept beside the ring: the write a recorder made.
hist_write(h, r, t) ==
    IF ~r.need \/ r.idx >= MAX_DOM_ACTIVE_TPTRS \/ r.dom \notin DOMAIN h THEN h
    ELSE [h EXCEPT ![r.dom].writes =
             Append(@, [fetched |-> r.fetched, idx |-> r.idx, task |-> t])]

(***************************************************************************)
(* The scheduler under the host framework: one action per callback         *)
(***************************************************************************)
Running(c) ==
    {t \in DOMAIN st : st[t] \in {"starting", "running"} /\ task[t].cpu = c}

tunables == <<rodata, tune_input>>

rings == <<active_tasks, recording, ring_hist>>

history == <<last_select>>

queues == <<dom_dsq, local_dsq>>

\* ops.init_task, run on CPU cpu for a new task whose last CPU is tcpu (a
\* CPU of its mask; the CPU may have gone offline since the task ran).
InitTask(t, cpus, kthread, cpu, tcpu) ==
    /\ ~obs.err
    /\ st[t] = "none"
    /\ cpu \in OnlineCPUs
    /\ tcpu \in cpus
    /\ \E r \in {rusty_init_task(NewTask(cpus, kthread, tcpu), cpu)} :
         /\ task' = [task EXCEPT ![t] = r.t]
         /\ pcpu_ctx' = [pcpu_ctx EXCEPT ![cpu].dom_rr_cur = r.cur]
         /\ obs' = [ObsNone EXCEPT !.op = "init_task", !.task = t,
                        !.cpu = cpu, !.err = r.err,
                        !.pre = NewTask(cpus, kthread, tcpu)]
    /\ st' = [st EXCEPT ![t] = "sleeping"]
    /\ UNCHANGED <<tunables, select_call, rings, history, tune, queues, min_vruntime, idle_cpumask>>

\* The balancer stores a new target domain in the task's context.
BalancerSetTarget(t, d) ==
    /\ ~obs.err
    /\ st[t] # "none"
    /\ d \in Doms
    /\ d # task[t].target_dom
    /\ task' = [task EXCEPT ![t].target_dom = d]
    /\ obs' = [ObsNone EXCEPT !.op = "balancer", !.task = t, !.arg = d,
                   !.pre = task[t]]
    /\ UNCHANGED <<tunables, select_call, rings, history, tune, queues, min_vruntime, idle_cpumask, st,
                   pcpu_ctx>>

\* The host changes the affinity of a sleeping or queued task and calls
\* ops.set_cpumask on CPU cpu; a queued task is taken off its queue first and
\* enqueued again afterwards, on an allowed CPU, without a select_cpu call.
SetCpumask(t, cpus, cpu, race) ==
    /\ ~obs.err
    /\ st[t] \in {"sleeping", "queued"}
    /\ cpus # task[t].cpus_ptr
    /\ cpus \cap OnlineCPUs # {}
    /\ cpu \in OnlineCPUs
    /\ race # NULL => race \in Doms
    /\ \E ncpu \in (IF st[t] = "queued" /\ task[t].cpu \notin cpus
                    THEN cpus \cap OnlineCPUs ELSE {task[t].cpu}) :
       \E r \in {rusty_set_cpumask([task[t] EXCEPT !.cpus_ptr = cpus,
                                                   !.cpu = ncpu],
                                   cpus, cpu, FALSE, race)} :
         /\ task' = [task EXCEPT ![t] = r.t]
         /\ pcpu_ctx' = [pcpu_ctx EXCEPT ![cpu].dom_rr_cur = r.cur]
         /\ obs' = [ObsNone EXCEPT !.op = "set_cpumask", !.task = t,
                        !.cpu = cpu, !.err = r.err, !.prest = st[t],
                        !.pre = task[t]]
    /\ st' = [st EXCEPT ![t] = IF @ = "queued" THEN "runnable" ELSE @]
    /\ dom_dsq' = [d \in DOMAIN dom_dsq |-> SelectSeq(dom_dsq[d], LAMBDA x : x # t)]
    /\ local_dsq' = [c \in CPUS |-> SelectSeq(local_dsq[c], LAMBDA x : x # t)]
    /\ UNCHANGED <<tunables, select_call, rings, history, tune, min_vruntime, idle_cpumask>>

\* The CPU the host puts the task on after ops.select_cpu returned ret: ret
\* itself when the task may run there, else any allowed online CPU.
HostCpus(tk, ret) ==
    IF ret \in tk.cpus_ptr \cap OnlineCPUs THEN {ret}
    ELSE tk.cpus_ptr \cap OnlineCPUs

\* ops.select_cpu for a waking task, called on CPU env.cur_cpu with the
\* task's last CPU as prev_cpu.  A not-found return aborts the scheduler.
SelectCpu(t, wake_sync, env) ==
    /\ ~obs.err
    /\ st[t] = "sleeping"
    /\ env.cur_cpu \in OnlineCPUs
    /\ \E tn \in {refresh_tune_params} :
       \E r \in rusty_select_cpu(task[t], task[t].cpu, wake_sync, env, tn) :
       \E ncpu \in HostCpus(task[t], r.ret) :
         /\ tune' = tn
         /\ idle_cpumask' = idle_cpumask \ {r.claimed}
         /\ task' = [task EXCEPT
                      ![t].dispatch_local = (@ \/ r.exit = "direct"),
                      ![t].cpu = IF r.exit = "enoent" THEN @ ELSE ncpu]
         /\ st' = [st EXCEPT ![t] = IF r.exit = "enoent" THEN @
                                    ELSE "woken"]
         /\ last_select' = [last_select EXCEPT ![t] = r.exit]
         /\ obs' = [ObsNone EXCEPT !.op = "select_cpu", !.task = t,
                        !.cpu = env.cur_cpu, !.prev_cpu = task[t].cpu,
                        !.arg = IF wake_sync THEN 1 ELSE 0,
                        !.ret = r.ret, !.exit = r.exit, !.stat = r.stat,
                        !.err = (r.exit = "enoent"), !.miss = env.miss,
                        !.prest = st[t], !.pre = task[t]]
    /\ UNCHANGED <<tunables, select_call, rings, queues, min_vruntime, pcpu_ctx>>

\* ops.select_cpu for a waking task begins on CPU cur, which runs no other
\* call: its steps follow one by one.
SelectBegin(t, cur) ==
    /\ ~obs.err
    /\ st[t] = "sleeping"
    /\ cur \in OnlineCPUs
    /\ \A u \in DOMAIN task : st[u] = "waking" => select_call[u].cur_cpu # cur
    /\ st' = [st EXCEPT ![t] = "waking"]
    /\ select_call' = [select_call EXCEPT ![t] =
                         [NotSelecting EXCEPT !.pc = "refresh_test",
                                              !.prev_cpu = task[t].cpu,
                                              !.cur_cpu = cur]]
    /\ obs' = [ObsNone EXCEPT !.op = "select_begin", !.task = t, !.cpu = cur,
                   !.prev_cpu = task[t].cpu, !.pre = task[t]]
    /\ UNCHANGED <<tunables, rings, history, tune, queues, min_vruntime,
                   idle_cpumask, task, pcpu_ctx>>

\* The call in flight for t takes one step of refresh_tune_params(); ok
\* records that the test found the cached generation current.
RefreshStep(t) ==
    /\ ~obs.err
    /\ st[t] = "waking"
    /\ select_call[t].pc \in {"refresh_test", "refresh_gen", "refresh_slice",
                              "refresh_cpu"}
    /\ \E r \in {refresh_step(select_call[t], tune)} :
         /\ select_call' = [select_call EXCEPT ![t] = r.c]
         /\ tune' = r.tn
         /\ obs' = [ObsNone EXCEPT !.op = select_call[t].pc, !.task = t,
                        !.cpu = select_call[t].cur_cpu,
                        !.ok = (select_call[t].pc = "refresh_test"
                                /\ r.c.pc = "entry"),
                        !.pre = task[t]]
    /\ UNCHANGED <<tunables, rings, history, queues, min_vruntime,
                   idle_cpumask, task, st, pcpu_ctx>>

\* The call in flight for t takes one step of the placement; the step that
\* returns marks the task as SelectCpu does and keeps the result in
\* select_call until the task's next call.
SelectStep(t) ==
    /\ ~obs.err
    /\ st[t] = "waking"
    /\ select_call[t].pc \in {"entry", "prev_test", "prev_claim", "core",
                              "prev_idle", "any", "greedy"}
    /\ \E s \in select_step(task[t], select_call[t], tune) :
       \E ncpu \in (IF s.c.pc = "done" /\ s.c.res.exit # "enoent"
                    THEN HostCpus(task[t], s.c.res.ret) ELSE {task[t].cpu}) :
         /\ select_call' = [select_call EXCEPT ![t] = s.c]
         /\ idle_cpumask' = s.idle
         /\ IF s.c.pc = "done"
            THEN /\ task' = [task EXCEPT
                              ![t].dispatch_local =
                                  (@ \/ s.c.res.exit = "direct"),
                              ![t].cpu = ncpu]
                 /\ st' = [st EXCEPT ![t] = IF s.c.res.exit = "enoent"
                                            THEN "sleeping" ELSE "woken"]
                 /\ last_select' = [last_select EXCEPT ![t] = s.c.res.exit]
                 /\ obs' = [ObsNone EXCEPT !.op = "select_cpu", !.task = t,
                                !.cpu = select_call[t].cur_cpu,
                                !.prev_cpu = select_call[t].prev_cpu,
                                !.arg = 0, !.ret = s.c.res.ret,
                                !.exit = s.c.res.exit, !.stat = s.c.res.stat,
                                !.err = (s.c.res.exit = "enoent"),
                                !.prest = "sleeping", !.pre = task[t]]
            ELSE /\ obs' = [ObsNone EXCEPT !.op = select_call[t].pc,
                                !.task = t, !.cpu = select_call[t].cur_cpu,
                                !.pre = task[t]]
                 /\ UNCHANGED <<task, st, last_select>>
    /\ UNCHANGED <<tunables, rings, tune, queues, min_vruntime, pcpu_ctx>>

\* The host carries out the insertions an enqueue asked for, in order.
RECURSIVE do_inserts(_, _, _, _)
do_inserts(qs, ins, t, vtime) ==
    IF ins = <<>> THEN qs
    ELSE
        LET i == Head(ins)
        IN  do_inserts(
                IF i.kind = "local"
                THEN [qs EXCEPT !.local[i.id] = dsq_insert(@, t)]
                ELSE [qs EXCEPT !.dom[i.id] =
                        IF fifo_sched THEN dsq_insert(@, t)
                        ELSE dsq_insert_vtime(@, t, vtime,
                                 [x \in DOMAIN task |-> IF x = t THEN vtime
                                                  ELSE task[x].dsq_vtime])],
                Tail(ins), t, vtime)

\* ops.enqueue for a task that woke up or used up its slice.
Enqueue(t, race) ==
    /\ ~obs.err
    /\ st[t] \in {"woken", "runnable", "stopped"}
    /\ race.at # "none" => race.dom \in Doms
    /\ race.at = "set_domain" => task[t].domc # task[t].target_dom
    /\ \E r \in {rusty_enqueue(task[t], race)} :
       \E qs \in {do_inserts([local |-> local_dsq, dom |-> dom_dsq], r.ins, t,
                             r.t.dsq_vtime)} :
       \E k \in (IF r.kick = {} THEN {NULL} ELSE r.kick) :
       \E g \in (IF r.ins # <<>> /\ r.ins[Len(r.ins)].kind = "dom"
                    /\ enqueue_kick_greedy(r.t, tune) # {}
                 THEN enqueue_kick_greedy(r.t, tune) ELSE {NULL}) :
         /\ task' = [task EXCEPT ![t] = r.t]
         /\ local_dsq' = qs.local
         /\ dom_dsq' = qs.dom
         /\ st' = [st EXCEPT ![t] = IF r.ins = <<>> THEN "dropped"
                                    ELSE "queued"]
         /\ obs' = [ObsNone EXCEPT !.op = "enqueue", !.task = t,
                        !.kind = IF r.ins = <<>> THEN "none"
                                 ELSE r.ins[1].kind,
                        !.id = IF r.ins = <<>> THEN NULL ELSE r.ins[1].id,
                        !.kick = k, !.gkick = g, !.migrated = r.migrated,
                        !.stat = r.stat, !.arg = race.at, !.nins = Len(r.ins),
                        !.prest = st[t], !.pre = task[t]]
    /\ UNCHANGED <<tunables, select_call, rings, history, tune, min_vruntime, idle_cpumask, pcpu_ctx>>

\* ops.dispatch on a CPU that has nothing to run.  The record names the CPU
\* as cpu when a task was moved to it and as prev_cpu when it scanned.
Dispatch(cpu) ==
    /\ ~obs.err
    /\ local_dsq[cpu] = <<>>
    /\ Running(cpu) = {}
    /\ \E r \in {rusty_dispatch(cpu)} :
       \E i \in {IF r.from = NULL THEN 0
                 ELSE move_to_local(dom_dsq[r.from], cpu)} :
       \E t \in {IF i = 0 THEN "" ELSE dom_dsq[r.from][i]} :
         /\ pcpu_ctx' = [pcpu_ctx EXCEPT ![cpu].dom_rr_cur = r.cur]
         /\ dom_dsq' = IF i = 0 THEN dom_dsq
                       ELSE [dom_dsq EXCEPT ![r.from] = Remove(@, i)]
         /\ local_dsq' = IF i = 0 THEN local_dsq
                         ELSE [local_dsq EXCEPT ![cpu] = Append(@, t)]
         /\ task' = IF i = 0 THEN task ELSE [task EXCEPT ![t].cpu = cpu]
         /\ obs' = [ObsNone EXCEPT !.op = "dispatch",
                        !.cpu = IF i = 0 THEN NULL ELSE cpu, !.task = t,
                        !.id = r.from, !.stat = r.stat,
                        !.prev_cpu = IF r.local = <<>> /\ r.xnuma = <<>>
                                     THEN NULL ELSE cpu,
                        !.arg = Len(r.local) + Len(r.xnuma),
                        !.probes = <<r.local, r.xnuma>>]
    /\ UNCHANGED <<tunables, select_call, rings, history, tune, min_vruntime, idle_cpumask, st>>

\* The host starts the head of a CPU's local queue: ops.running, run to
\* completion.
Run(cpu) ==
    /\ ~obs.err
    /\ local_dsq[cpu] # <<>>
    /\ Running(cpu) = {}
    /\ \E t \in {Head(local_dsq[cpu])} :
       \E f \in {running_fetch(task[t], active_tasks)} :
       \E w \in {running_store(t, task[t], f.r, f.at)} :
         /\ f.r.need => active_tasks[f.r.dom].write_idx < MaxWrites
         /\ local_dsq' = [local_dsq EXCEPT ![cpu] = Tail(@)]
         /\ st' = [st EXCEPT ![t] = "running"]
         /\ task' = [task EXCEPT ![t] = [w.t EXCEPT !.cpu = cpu]]
         /\ active_tasks' = w.at
         /\ ring_hist' = hist_write(hist_start(ring_hist, f.r.dom, t), f.r, t)
         /\ min_vruntime' =
              IF fifo_sched \/ f.exit # "ok" \/ w.err THEN min_vruntime
              ELSE [min_vruntime EXCEPT ![task[t].domc] =
                       running_update_vtime(task[t])]
         /\ obs' = [ObsNone EXCEPT !.op = "running", !.task = t,
                        !.cpu = cpu, !.pre = task[t],
                        !.err = (f.exit = "error" \/ w.err)]
    /\ idle_cpumask' = idle_cpumask \ {cpu}
    /\ UNCHANGED <<tunables, select_call, history, tune, dom_dsq, pcpu_ctx, recording>>

\* ops.running on a CPU up to its fetch-and-add on the ring's write cursor:
\* other CPUs run their callbacks before it goes on.
RunBegin(cpu) ==
    /\ ~obs.err
    /\ local_dsq[cpu] # <<>>
    /\ Running(cpu) = {}
    /\ \E t \in {Head(local_dsq[cpu])} :
       \E f \in {running_fetch(task[t], active_tasks)} :
         /\ f.r.need => active_tasks[f.r.dom].write_idx < MaxWrites
         /\ local_dsq' = [local_dsq EXCEPT ![cpu] = Tail(@)]
         /\ st' = [st EXCEPT ![t] = "starting"]
         /\ task' = [task EXCEPT ![t].cpu = cpu]
         /\ active_tasks' = f.at
         /\ recording' = [recording EXCEPT ![t] = f.r]
         /\ ring_hist' = hist_start(ring_hist, f.r.dom, t)
         /\ obs' = [ObsNone EXCEPT !.op = "running_fetch", !.task = t,
                        !.cpu = cpu, !.pre = task[t],
                        !.err = (f.exit = "error")]
    /\ idle_cpumask' = idle_cpumask \ {cpu}
    /\ UNCHANGED <<tunables, select_call, history, tune, dom_dsq, pcpu_ctx, min_vruntime>>

\* The rest of that ops.running call: the store into the ring and the vtime
\* update.
RunEnd(t) ==
    /\ ~obs.err
    /\ st[t] = "starting"
    /\ \E w \in {running_store(t, task[t], recording[t], active_tasks)} :
         /\ st' = [st EXCEPT ![t] = "running"]
         /\ task' = [task EXCEPT ![t] = w.t]
         /\ active_tasks' = w.at
         /\ recording' = [recording EXCEPT ![t] = NotRecording]
         /\ ring_hist' = hist_write(ring_hist, recording[t], t)
         /\ min_vruntime' =
              IF fifo_sched \/ ~task[t].ctx \/ w.err THEN min_vruntime
              ELSE [min_vruntime EXCEPT ![task[t].domc] =
                       running_update_vtime(task[t])]
         /\ obs' = [ObsNone EXCEPT !.op = "running", !.task = t,
                        !.cpu = task[t].cpu, !.pre = task[t], !.err = w.err]
    /\ UNCHANGED <<tunables, select_call, history, tune, queues, pcpu_ctx, idle_cpumask>>

\* The userspace balancer has read a domain's ring and stamps a new
\* generation on it.
BalancerNewGen(d) ==
    /\ ~obs.err
    /\ d \in DOMAIN active_tasks
    /\ active_tasks[d].gen < MaxGen
    /\ active_tasks' = [active_tasks EXCEPT ![d].gen = @ + 1]
    /\ obs' = [ObsNone EXCEPT !.op = "balancer_gen", !.id = d]
    /\ UNCHANGED <<tunables, select_call, history, tune, queues, pcpu_ctx, idle_cpumask,
                   min_vruntime, task, st, recording, ring_hist>>

\* The task's process sets its memory policy (set_mempolicy(2)): home node
\* node, or none.
SetMempolicy(t, node) ==
    /\ ~obs.err
    /\ st[t] = "sleeping"
    /\ node # task[t].mempolicy
    /\ task' = [task EXCEPT ![t].mempolicy = node]
    /\ obs' = [ObsNone EXCEPT !.op = "set_mempolicy", !.task = t]
    /\ UNCHANGED <<tunables, select_call, rings, history, tune, queues, pcpu_ctx,
                   idle_cpumask, min_vruntime, st>>

\* The userspace tuner writes tune_input: a slice length and the two greedy
\* masks, and then the next generation (bump), or the fields only with the
\* generation still to come.
TunerWrite(bump, slice, dg, kg) ==
    /\ ~obs.err
    /\ bump => tune_input.gen < MaxTuneGen
    /\ tune_input' = TuneInput(tune_input.gen + (IF bump THEN 1 ELSE 0),
                               slice, dg, kg)
    /\ tune_input' # tune_input
    /\ obs' = [ObsNone EXCEPT !.op = "tuner"]
    /\ UNCHANGED <<rodata, select_call, rings, history, tune, queues, pcpu_ctx,
                   idle_cpumask, min_vruntime, task, st>>

\* ops.stopping: the task leaves the CPU, still runnable (slice used up) or
\* not (it blocks).  delta: the weighted time it ran.
Stopping(t, runnable, delta) ==
    /\ ~obs.err
    /\ st[t] = "running"
    /\ task[t].dsq_vtime + delta <= MaxVtime
    /\ task' = [task EXCEPT ![t] =
                  IF fifo_sched \/ ~@.ctx \/ @.domc = NULL THEN @
                  ELSE stopping_update_vtime(@, delta)]
    /\ st' = [st EXCEPT ![t] = IF runnable THEN "stopped" ELSE "sleeping"]
    /\ last_select' = [last_select EXCEPT ![t] = IF runnable THEN @ ELSE "none"]
    /\ obs' = [ObsNone EXCEPT !.op = "stopping", !.task = t, !.arg = delta,
                   !.pre = task[t]]
    /\ UNCHANGED <<tunables, select_call, rings, tune, queues, min_vruntime, idle_cpumask,
                   pcpu_ctx>>

\* The host marks a CPU idle once it has nothing to run.
GoIdle(cpu) ==
    /\ ~obs.err
    /\ cpu \in OnlineCPUs \ idle_cpumask
    /\ local_dsq[cpu] = <<>>
    /\ Running(cpu) = {}
    /\ idle_cpumask' = idle_cpumask \cup {cpu}
    /\ obs' = [ObsNone EXCEPT !.op = "idle", !.cpu = cpu]
    /\ UNCHANGED <<tunables, select_call, rings, history, tune, queues, min_vruntime, task, st, pcpu_ctx>>

(***************************************************************************)
(* Spec: one task through its life on two domains of two CPUs each         *)
(***************************************************************************)
Races == {NoRace} \cup {[at |-> a, dom |-> d] :
                          a \in {"set_domain", "insert"}, d \in 0 .. 1}

\* The masks the task is given, the CPU the domain-picking callbacks run
\* on, the CPUs wakeups come from and the CPUs that go idle.
SpecMasks == {{0, 1, 2, 3}, {0, 1}, {2}}

PickCpus == {0}

Wakers == {0, 2}

IdleCpus == {0}

NoMiss == {}

Init ==
    /\ rodata \in {Rodata(2, 2, fifo, FALSE, FALSE, 0, 0) : fifo \in BOOLEAN}
    /\ task = [t \in Tasks |-> NewTask({}, FALSE, NULL)]
    /\ st = [t \in Tasks |-> "none"]
    /\ pcpu_ctx = InitPcpu(rodata)
    /\ min_vruntime = [d \in 0 .. 1 |-> 0]
    /\ dom_dsq = [d \in 0 .. 1 |-> <<>>]
    /\ local_dsq = [c \in CPUS |-> <<>>]
    /\ idle_cpumask = {}
    /\ tune_input = TuneInput(0, 0, {}, {})
    /\ tune = TuneZero(2)
    /\ last_select = [t \in Tasks |-> "none"]
    /\ obs = ObsNone
    /\ select_call = [t \in DOMAIN task |-> NotSelecting]
    /\ RingStart(rodata.nr_doms, Tasks, {})

Next ==
    \/ \E t \in Tasks, cpus \in SpecMasks, cpu \in PickCpus, tcpu \in CPUS :
          InitTask(t, cpus, FALSE, cpu, tcpu)
    \/ \E t \in Tasks, d \in 0 .. 1 : BalancerSetTarget(t, d)
    \/ \E t \in Tasks, cpus \in SpecMasks, cpu \in PickCpus,
          race \in {NULL, 0, 1} : SetCpumask(t, cpus, cpu, race)
    \/ \E t \in Tasks, sync \in BOOLEAN, cur \in Wakers :
          SelectCpu(t, sync, [cur_cpu |-> cur, cur_exiting |-> FALSE,
                              miss |-> NoMiss])
    \/ \E t \in Tasks, race \in Races : Enqueue(t, race)
    \/ \E c \in CPUS : Dispatch(c)
    \/ \E c \in CPUS : Run(c)
    \/ \E t \in Tasks, r \in BOOLEAN, delta \in 0 .. 1 : Stopping(t, r, delta)
    \/ \E c \in IdleCpus : GoIdle(c)

Spec == Init /\ [][Next]_vars

\* The same life with FIFO domain queues only: every queue insertion is the
\* scx_bpf_dsq_insert() call of rusty_enqueue() itself.
InitFifo == Init /\ rodata.fifo_sched

SpecFifo == InitFifo /\ [][Next]_vars

(***************************************************************************)
(* SpecSelect: rusty_select_cpu() on every prepared task and idle state    *)
(***************************************************************************)
\* Configurations, idle masks, tuner-chosen greedy masks and failing lookups
\* tried.  With three domains CPU 3 is offline, and a task may have last
\* run on it before it went away.
SelectConfigs ==
    {Rodata(n, 2, FALSE, k, k, 0, 0) : n \in 2 .. 3, k \in BOOLEAN}

IdleMasks == {{}, {1}, {2, 3}, {0, 1, 2, 3}}

GreedyMasks == {{}, {0, 1, 2, 3}}

MissSets == {{}} \cup {{m} : m \in {"task_mask", "pcpu_ctx", "sync_dom",
                                    "prev_dom", "node_mask"}}

InitSelect ==
    /\ rodata \in SelectConfigs
    /\ pcpu_ctx = InitPcpu(rodata)
    /\ min_vruntime = [d \in 0 .. (rodata.nr_doms - 1) |-> 0]
    /\ dom_dsq = [d \in 0 .. (rodata.nr_doms - 1) |-> <<>>]
    /\ local_dsq = [c \in CPUS |-> <<>>]
    /\ idle_cpumask \in {m \cap OnlineCPUs : m \in IdleMasks}
    /\ tune_input \in {TuneInput(1, 1, dg \cap OnlineCPUs, {}) :
                         dg \in GreedyMasks}
    /\ tune = TuneZero(rodata.nr_doms)
    /\ task = [t \in Tasks |-> NewTask({}, FALSE, NULL)]
    /\ st = [t \in Tasks |-> "none"]
    /\ last_select = [t \in Tasks |-> "none"]
    /\ obs = ObsNone
    /\ select_call = [t \in DOMAIN task |-> NotSelecting]
    /\ RingStart(rodata.nr_doms, Tasks, {})

NextSelect ==
    \/ \E t \in Tasks, cpus \in AffinityMasks, k \in BOOLEAN, cpu \in PickCpus,
          tcpu \in CPUS : InitTask(t, cpus, k, cpu, tcpu)
    \/ \E t \in Tasks, cpus \in AffinityMasks, cpu \in PickCpus :
          SetCpumask(t, cpus, cpu, NULL)
    \/ \E t \in Tasks, sync \in BOOLEAN, cur \in Wakers, miss \in MissSets :
          SelectCpu(t, sync, [cur_cpu |-> cur, cur_exiting |-> FALSE,
                              miss |-> miss])

SpecSelect == InitSelect /\ [][NextSelect]_vars

(***************************************************************************)
(* SpecDomain: domain assignment on one, two and three domains             *)
(***************************************************************************)
\* task_set_domain() called on a sleeping task with any domain id.
SetDomain(t, new_dom_id, init_dsq_vtime) ==
    /\ ~obs.err
    /\ st[t] = "sleeping"
    /\ \E r \in {task_set_domain(task[t], new_dom_id, init_dsq_vtime, FALSE,
                                 NULL)} :
         /\ task' = [task EXCEPT ![t] = r.t]
         /\ obs' = [ObsNone EXCEPT !.op = "set_domain", !.task = t,
                        !.arg = new_dom_id, !.ok = r.ret, !.err = r.err,
                        !.prest = st[t], !.pre = task[t]]
    /\ UNCHANGED <<tunables, select_call, rings, history, tune, queues, min_vruntime,
                   idle_cpumask, st, pcpu_ctx>>

\* The domain ids handed to task_set_domain(): real ones, ids past the last
\* domain, and the sentinel.
DomIds == (0 .. 3) \cup {NO_DOM_FOUND}

InitDomain ==
    /\ rodata \in {Rodata(n, 1, FALSE, FALSE, FALSE, 0, 0) : n \in 1 .. 3}
    /\ pcpu_ctx = InitPcpu(rodata)
    /\ min_vruntime \in [0 .. (rodata.nr_doms - 1) -> 0 .. MaxVtime]
    /\ dom_dsq = [d \in 0 .. (rodata.nr_doms - 1) |-> <<>>]
    /\ local_dsq = [c \in CPUS |-> <<>>]
    /\ idle_cpumask = {}
    /\ tune_input = TuneInput(0, 0, {}, {})
    /\ tune = TuneZero(rodata.nr_doms)
    /\ task = [t \in Tasks |-> NewTask({}, FALSE, NULL)]
    /\ st = [t \in Tasks |-> "none"]
    /\ last_select = [t \in Tasks |-> "none"]
    /\ obs = ObsNone
    /\ select_call = [t \in DOMAIN task |-> NotSelecting]
    /\ RingStart(rodata.nr_doms, Tasks, {})

NextDomain ==
    \/ \E t \in Tasks, cpus \in AffinityMasks, cpu \in PickCpus, tcpu \in CPUS :
          InitTask(t, cpus, FALSE, cpu, tcpu)
    \/ \E t \in Tasks, d \in 0 .. 2 : BalancerSetTarget(t, d)
    \/ \E t \in Tasks, cpus \in AffinityMasks, cpu \in PickCpus :
          SetCpumask(t, cpus, cpu, NULL)
    \/ \E t \in Tasks, d \in DomIds, init \in BOOLEAN : SetDomain(t, d, init)

SpecDomain == InitDomain /\ [][NextDomain]_vars

(***************************************************************************)
(* SpecDispatch: rusty_dispatch() with the steal thresholds configured     *)
(***************************************************************************)
\* One to three domains on one or two nodes, FIFO queues, the same-node
\* threshold off or 2, the cross-node threshold off, 1 or 2.
DispatchConfigs ==
    {Rodata(n, nodes, TRUE, FALSE, FALSE, gt, gtx) :
        n \in 1 .. 3, nodes \in 1 .. 2, gt \in {0, 2}, gtx \in 0 .. 2}

\* The CPUs that run out of work and call ops.dispatch.
DispatchCpus == {0, 2}

\* The CPUs a task is forked on: their cursors pick its first domain.
DispatchForkCpus == {0, 1}

InitDispatch ==
    /\ rodata \in DispatchConfigs
    /\ pcpu_ctx = InitPcpu(rodata)
    /\ min_vruntime = [d \in 0 .. (rodata.nr_doms - 1) |-> 0]
    /\ dom_dsq = [d \in 0 .. (rodata.nr_doms - 1) |-> <<>>]
    /\ local_dsq = [c \in CPUS |-> <<>>]
    /\ idle_cpumask = {}
    /\ tune_input = TuneInput(0, 0, {}, {})
    /\ tune = TuneZero(rodata.nr_doms)
    /\ task = [t \in Tasks |-> NewTask({}, FALSE, NULL)]
    /\ st = [t \in Tasks |-> "none"]
    /\ last_select = [t \in Tasks |-> "none"]
    /\ obs = ObsNone
    /\ select_call = [t \in DOMAIN task |-> NotSelecting]
    /\ RingStart(rodata.nr_doms, Tasks, {})

NextDispatch ==
    \/ \E t \in Tasks, cpu \in DispatchForkCpus, tcpu \in PickCpus :
          InitTask(t, CPUS, FALSE, cpu, tcpu)
    \/ \E t \in Tasks :
          SelectCpu(t, FALSE, [cur_cpu |-> 0, cur_exiting |-> FALSE,
                               miss |-> NoMiss])
    \/ \E t \in Tasks : Enqueue(t, NoRace)
    \/ \E c \in DispatchCpus : Dispatch(c)
    \/ \E c \in CPUS \ OnlineCPUs : Dispatch(c)
    \/ \E c \in CPUS : Run(c)
    \/ \E t \in Tasks : Stopping(t, FALSE, 0)

SpecDispatch == InitDispatch /\ [][NextDispatch]_vars

(***************************************************************************)
(* Specifications of the active-task ring: one domain whose tasks start    *)
(* running again and again, on two CPUs whose rusty_running calls          *)
(* interleave (SpecRing), and on one CPU, one call after the other         *)
(* (SpecRingSeq)                                                           *)
(***************************************************************************)
RingTasks == {"t1", "t2"}

RingSeqTasks == {"t1", "t2", "t3"}

RingCpus == {0, 2}

RingSeqCpus == {0}

RingConfig == Rodata(1, 1, TRUE, FALSE, FALSE, 0, 0)

InitRingOf(ts) ==
    /\ rodata = RingConfig
    /\ pcpu_ctx = InitPcpu(rodata)
    /\ min_vruntime = [d \in {0} |-> 0]
    /\ dom_dsq = [d \in {0} |-> <<>>]
    /\ local_dsq = [c \in CPUS |-> <<>>]
    /\ idle_cpumask = {}
    /\ tune_input = TuneInput(0, 0, {}, {})
    /\ tune = TuneZero(1)
    /\ task = [t \in ts |-> NewTask({}, FALSE, NULL)]
    /\ st = [t \in ts |-> "none"]
    /\ last_select = [t \in ts |-> "none"]
    /\ obs = ObsNone
    /\ select_call = [t \in DOMAIN task |-> NotSelecting]
    /\ active_tasks = [d \in {0} |-> ActiveTasksZero]
    /\ recording = [t \in ts |-> NotRecording]
    /\ ring_hist = [d \in {0} |-> RingHistZero]

\* What the two ring specifications share: tasks are admitted, wake up, are
\* queued on the domain, pulled by a CPU, and use up their slice.
RingLife(ts, cpus) ==
    \/ \E t \in ts, tcpu \in cpus : InitTask(t, CPUS, FALSE, 0, tcpu)
    \/ \E t \in ts :
          SelectCpu(t, FALSE, [cur_cpu |-> 0, cur_exiting |-> FALSE,
                               miss |-> NoMiss])
    \/ \E t \in ts : Enqueue(t, NoRace)
    \/ \E c \in cpus : Dispatch(c)
    \/ \E t \in ts : Stopping(t, TRUE, 0)
    \/ BalancerNewGen(0)

InitRing == InitRingOf(RingTasks)

NextRing ==
    \/ RingLife(RingTasks, RingCpus)
    \/ \E c \in RingCpus : RunBegin(c)
    \/ \E t \in RingTasks : RunEnd(t)

SpecRing == InitRing /\ [][NextRing]_vars

InitRingSeq == InitRingOf(RingSeqTasks)

NextRingSeq ==
    \/ RingLife(RingSeqTasks, RingSeqCpus)
    \/ \E c \in RingSeqCpus : Run(c)

SpecRingSeq == InitRingSeq /\ [][NextRingSeq]_vars

(***************************************************************************)
(* Specification of the tuning channel: the tuner writes tune_input while   *)
(* a task keeps waking up, each wakeup refreshing the tuning parameters     *)
(***************************************************************************)
\* Two and three domains; with three, CPU 3 is offline.
TuneConfigs == {Rodata(n, 1, TRUE, FALSE, FALSE, 0, 0) : n \in 2 .. 3}

TuneSlices == 1 .. 2

TuneDirectMasks == {{}, {1, 3}, {0, 1, 2, 3}}

TuneKickMasks == {{}, {0, 3}}

InitTune ==
    /\ rodata \in TuneConfigs
    /\ pcpu_ctx = InitPcpu(rodata)
    /\ min_vruntime = [d \in 0 .. (rodata.nr_doms - 1) |-> 0]
    /\ dom_dsq = [d \in 0 .. (rodata.nr_doms - 1) |-> <<>>]
    /\ local_dsq = [c \in CPUS |-> <<>>]
    /\ idle_cpumask = {}
    /\ tune_input = TuneInput(0, 0, {}, {})
    /\ tune = TuneZero(rodata.nr_doms)
    /\ task = [t \in Tasks |-> NewTask({}, FALSE, NULL)]
    /\ st = [t \in Tasks |-> "none"]
    /\ last_select = [t \in Tasks |-> "none"]
    /\ obs = ObsNone
    /\ select_call = [t \in DOMAIN task |-> NotSelecting]
    /\ RingStart(rodata.nr_doms, Tasks, {})

NextTune ==
    \/ \E bump \in BOOLEAN, slice \in TuneSlices, dg \in TuneDirectMasks,
          kg \in TuneKickMasks : TunerWrite(bump, slice, dg, kg)
    \/ \E t \in Tasks : InitTask(t, CPUS, FALSE, 0, 0)
    \/ \E t \in Tasks :
          SelectCpu(t, FALSE, [cur_cpu |-> 0, cur_exiting |-> FALSE,
                               miss |-> NoMiss])
    \/ \E t \in Tasks : Enqueue(t, NoRace)
    \/ \E c \in CPUS : Dispatch(c)
    \/ \E c \in CPUS : Run(c)
    \/ \E t \in Tasks : Stopping(t, FALSE, 0)

SpecTune == InitTune /\ [][NextTune]_vars

(***************************************************************************)
(* Specification of domain selection: tasks with and without a memory      *)
(* policy are admitted and have their affinity changed, on two CPUs with    *)
(* their own cursors                                                       *)
(***************************************************************************)
\* Two NUMA nodes, the last domain alone on node 1; mempolicy_affinity set.
PickConfigs ==
    {[Rodata(n, 2, TRUE, FALSE, FALSE, 0, 0)
         EXCEPT !.mempolicy_affinity = TRUE] : n \in 2 .. 3}

PickCallers == {0, 1}

\* Affinities over all, some, one and (with three domains) no domain.
PickMasks == {{0, 1, 2, 3}, {0, 1}, {2}, {3}}

\* The CPU a task being admitted last ran on.
PickLastCpus == {0, 2, 3}

PickNodes == {NULL, 0, 1}

InitPick ==
    /\ rodata \in PickConfigs
    /\ pcpu_ctx = InitPcpu(rodata)
    /\ min_vruntime = [d \in 0 .. (rodata.nr_doms - 1) |-> 0]
    /\ dom_dsq = [d \in 0 .. (rodata.nr_doms - 1) |-> <<>>]
    /\ local_dsq = [c \in CPUS |-> <<>>]
    /\ idle_cpumask = {}
    /\ tune_input = TuneInput(0, 0, {}, {})
    /\ tune = TuneZero(rodata.nr_doms)
    /\ task = [t \in Tasks |-> NewTask({}, FALSE, NULL)]
    /\ st = [t \in Tasks |-> "none"]
    /\ last_select = [t \in Tasks |-> "none"]
    /\ obs = ObsNone
    /\ select_call = [t \in DOMAIN task |-> NotSelecting]
    /\ RingStart(rodata.nr_doms, Tasks, {})

NextPick ==
    \/ \E t \in Tasks, cpus \in PickMasks, cpu \in PickCpus,
          tcpu \in PickLastCpus : InitTask(t, cpus, FALSE, cpu, tcpu)
    \/ \E t \in Tasks, node \in PickNodes : SetMempolicy(t, node)
    \/ \E t \in Tasks, cpus \in PickMasks, cpu \in PickCallers :
          SetCpumask(t, cpus, cpu, NULL)

SpecPick == InitPick /\ [][NextPick]_vars

(***************************************************************************)
(* Specification of concurrent wakeups: two tasks whose rusty_select_cpu   *)
(* calls run on different CPUs and interleave step by step, over the idle  *)
(* CPUs the host reported before them                                      *)
(***************************************************************************)
ClaimTasks == {"t1", "t2"}

\* One node of two domains, so that greedy placement reaches every CPU.
ClaimConfig == Rodata(2, 1, TRUE, FALSE, FALSE, 0, 0)

ClaimMasks == {{0, 1, 2, 3}, {0, 1}}

ClaimIdleMasks == {{0}, {0, 1}, {2, 3}, {1, 2, 3}}

ClaimLastCpus == {0, 2}

InitClaim ==
    /\ rodata = ClaimConfig
    /\ pcpu_ctx = InitPcpu(rodata)
    /\ min_vruntime = [d \in 0 .. 1 |-> 0]
    /\ dom_dsq = [d \in 0 .. 1 |-> <<>>]
    /\ local_dsq = [c \in CPUS |-> <<>>]
    /\ idle_cpumask \in ClaimIdleMasks
    /\ tune_input \in {TuneInput(1, 1, dg, {}) : dg \in GreedyMasks}
    /\ tune = TuneZero(2)
    /\ task = [t \in ClaimTasks |-> NewTask({}, FALSE, NULL)]
    /\ st = [t \in ClaimTasks |-> "none"]
    /\ last_select = [t \in ClaimTasks |-> "none"]
    /\ obs = ObsNone
    /\ select_call = [t \in ClaimTasks |-> NotSelecting]
    /\ RingStart(2, ClaimTasks, {})

NextClaim ==
    \/ \E t \in ClaimTasks, tcpu \in ClaimLastCpus :
          InitTask(t, {0, 1}, FALSE, 0, tcpu)
    \/ \E t \in ClaimTasks, cpus \in ClaimMasks : SetCpumask(t, cpus, 0, NULL)
    \/ \E t \in ClaimTasks, cur \in Wakers : SelectBegin(t, cur)
    \/ \E t \in ClaimTasks : RefreshStep(t)
    \/ \E t \in ClaimTasks : SelectStep(t)

SpecClaim == InitClaim /\ [][NextClaim]_vars

(***************************************************************************)
(* Specification of concurrent refreshes: the tuner publishes whole inputs *)
(* (fields and generation together) while the rusty_select_cpu calls of    *)
(* two tasks, on different CPUs, run refresh_tune_params() step by step    *)
(***************************************************************************)
InitRefresh ==
    /\ rodata = ClaimConfig
    /\ pcpu_ctx = InitPcpu(rodata)
    /\ min_vruntime = [d \in 0 .. 1 |-> 0]
    /\ dom_dsq = [d \in 0 .. 1 |-> <<>>]
    /\ local_dsq = [c \in CPUS |-> <<>>]
    /\ idle_cpumask = {}
    /\ tune_input = TuneInput(0, 0, {}, {})
    /\ tune = TuneZero(2)
    /\ task = [t \in ClaimTasks |-> NewTask({}, FALSE, NULL)]
    /\ st = [t \in ClaimTasks |-> "none"]
    /\ last_select = [t \in ClaimTasks |-> "none"]
    /\ obs = ObsNone
    /\ select_call = [t \in ClaimTasks |-> NotSelecting]
    /\ RingStart(2, ClaimTasks, {})

NextRefresh ==
    \/ \E slice \in TuneSlices, dg \in GreedyMasks, kg \in TuneKickMasks :
          TunerWrite(TRUE, slice, dg, kg)
    \/ \E t \in ClaimTasks : InitTask(t, CPUS, FALSE, 0, 0)
    \/ \E t \in ClaimTasks, cur \in Wakers : SelectBegin(t, cur)
    \/ \E t \in ClaimTasks : RefreshStep(t)
    \/ \E t \in ClaimTasks : SelectStep(t)

SpecRefresh == InitRefresh /\ [][NextRefresh]_vars

(***************************************************************************)
(* Properties of the task's life                                           *)
(***************************************************************************)
\* The number of queue positions that hold task t.
QueueCount(t) ==
    Cardinality({x \in UNION {{<<d, i>> : i \in 1 .. Len(dom_dsq[d])} :
                                d \in DOMAIN dom_dsq} :
                    dom_dsq[x[1]][x[2]] = t})
    + Cardinality({x \in UNION {{<<c, i>> : i \in 1 .. Len(local_dsq[c])} :
                                  c \in CPUS} :
                      local_dsq[x[1]][x[2]] = t})

\* Some CPU's rusty_dispatch() looks into domain queue d and may run t.
DispatchReaches(t, d) ==
    \E c \in OnlineCPUs :
        /\ CanRun(t, c)
        /\ (cpu_to_dom_id(c) = d \/ greedy_threshold # 0)

\* C1: no task loss.  Every enqueue of an admitted task leaves it on exactly
\* one queue; a task waiting on a domain queue can be moved to a local queue
\* by some CPU's dispatch; a task that is not waiting is on no queue (one
\* dispatch per enqueue).
C1_NoTaskLoss ==
    /\ (obs.op = "enqueue" /\ obs.pre.ctx) => QueueCount(obs.task) = 1
    /\ \A t \in Tasks :
         /\ st[t] = "queued" => QueueCount(t) = 1
         /\ st[t] # "queued" => QueueCount(t) = 0
         /\ \A d \in DOMAIN dom_dsq :
              (\E i \in 1 .. Len(dom_dsq[d]) : dom_dsq[d][i] = t)
                 => DispatchReaches(t, d)

\* C2: an enqueue that finds a balancer-written target domain T other than the
\* task's domain, with the affinity intersecting T, leaves the task in T
\* (pointer and id), on T's queue, and kicks a CPU of T.
C2_BalancerMigration ==
    (/\ obs.op = "enqueue"
     /\ obs.arg = "none"
     /\ obs.pre.domc # NULL
     /\ obs.pre.target_dom # obs.pre.domc
     /\ DomCpumask(obs.pre.target_dom) \cap obs.pre.cpus_ptr # {})
    => (/\ task[obs.task].domc = obs.pre.target_dom
        /\ task[obs.task].target_dom = obs.pre.target_dom
        /\ obs.kind = "dom"
        /\ obs.id = obs.pre.target_dom
        /\ obs.kick \in DomCpumask(obs.pre.target_dom))

\* C4: a task is never on more than one queue, and every enqueue makes at
\* most one queue insertion.
C4_OneQueue ==
    /\ \A t \in Tasks : QueueCount(t) <= 1
    /\ obs.op = "enqueue" => obs.nins <= 1

\* An enqueue through the migration branch of a task flagged for local
\* dispatch, which ends on one queue.
C4_Witness ==
    /\ obs.op = "enqueue"
    /\ obs.migrated
    /\ obs.pre.dispatch_local
    /\ obs.nins = 1
    /\ QueueCount(obs.task) = 1

\* C6: no callback lowers a task's vtime.
C6_VtimeMonotone ==
    obs.task \in Tasks
        => task[obs.task].dsq_vtime >= obs.pre.dsq_vtime

\* C10 as stated: an enqueue inserts locally iff the task's latest select_cpu
\* exited through a direct hit and the enqueue did not migrate; after a
\* fallback exit the enqueue uses a domain queue; the flag is false after an
\* inserting enqueue.
C10_LocalIffLastSelectDirect ==
    (obs.op = "enqueue" /\ obs.nins > 0)
    => (/\ (obs.kind = "local")
             <=> (last_select[obs.task] = "direct" /\ ~obs.migrated)
        /\ last_select[obs.task] = "fallback" => obs.kind = "dom"
        /\ ~task[obs.task].dispatch_local)

\* C10 amended: an enqueue inserts locally iff it is the first enqueue after
\* a select_cpu that exited through a direct hit and it did not migrate the
\* task; the first enqueue after a fallback exit uses a domain queue; the
\* flag is false after every inserting enqueue.
C10_LocalIffFreshDirect ==
    (obs.op = "enqueue" /\ obs.nins > 0)
    => (/\ (obs.kind = "local")
             <=> (/\ obs.prest = "woken"
                  /\ last_select[obs.task] = "direct"
                  /\ ~obs.migrated)
        /\ (obs.prest = "woken" /\ last_select[obs.task] = "fallback")
             => obs.kind = "dom"
        /\ ~task[obs.task].dispatch_local)

\* A first enqueue after a direct hit that went to the local queue.
C10_Witness ==
    /\ obs.op = "enqueue"
    /\ obs.prest = "woken"
    /\ last_select[obs.task] = "direct"
    /\ obs.kind = "local"
    /\ ~task[obs.task].dispatch_local

\* C3: task_set_domain() with a real domain whose CPUs do not intersect the
\* task's affinity returns false and leaves the domain id, the domain
\* pointer, the working mask and the vtime as they were.
C3_NonIntersectingFails ==
    (/\ obs.op = "set_domain"
     /\ obs.pre.ctx
     /\ obs.arg \in Doms
     /\ DomCpumask(obs.arg) \cap obs.pre.cpus_ptr = {})
    => (/\ ~obs.ok
        /\ task[obs.task].target_dom = obs.pre.target_dom
        /\ task[obs.task].domc = obs.pre.domc
        /\ task[obs.task].cpumask = obs.pre.cpumask
        /\ task[obs.task].dsq_vtime = obs.pre.dsq_vtime)

\* C5: after init_task or set_cpumask the task's dom_mask holds exactly the
\* domains whose CPUs intersect its affinity.
C5_DomMaskCoversAffinity ==
    (obs.op \in {"init_task", "set_cpumask"} /\ ~obs.err)
    => task[obs.task].dom_mask
         = {d \in Doms : DomCpumask(d) \cap task[obs.task].cpus_ptr # {}}

\* C7: for a task allowed on exactly one CPU, select_cpu returns that CPU,
\* flags the task for local dispatch, and counts the call under the pinned
\* statistic, or under a different one for a kernel worker when kernel
\* workers are set to be dispatched locally.
C7_PinnedReturnsItsCpu ==
    (/\ obs.op = "select_cpu"
     /\ obs.pre.ctx
     /\ "task_mask" \notin obs.miss
     /\ Cardinality(obs.pre.cpus_ptr) = 1)
    => (/\ obs.ret \in obs.pre.cpus_ptr
        /\ obs.exit = "direct"
        /\ task[obs.task].dispatch_local
        /\ (obs.pre.kthread /\ kthreads_local)
              => obs.stat \notin {"PINNED", "none"}
        /\ ~obs.pre.kthread => obs.stat = "PINNED")

\* C8: select_cpu returns -ENOENT or the id of an online CPU.
C8_ReturnsOnlineCpuOrEnoent ==
    obs.op = "select_cpu"
        => (obs.ret = 0 - ENOENT \/ obs.ret \in OnlineCPUs)

\* The lookups a select_cpu call made, given how far the call got: the task
\* lookup always; those of the synchronous-wakeup attempt for a task that is
\* not pinned and wakes synchronously.
LookupsMade(o) ==
    {"task_mask"}
      \cup (IF o.pre.ctx /\ "task_mask" \notin o.miss
               /\ Cardinality(o.pre.cpus_ptr) # 1 /\ o.arg = 1
            THEN {"pcpu_ctx", "sync_dom"} ELSE {})

\* C9: a select_cpu call in which a lookup failed returns -ENOENT.
C9_LookupFailureReturnsEnoent ==
    (obs.op = "select_cpu" /\ LookupsMade(obs) \cap obs.miss # {})
        => (obs.ret = 0 - ENOENT /\ obs.exit = "enoent")

(***************************************************************************)
(* Properties of rusty_dispatch()                                          *)
(***************************************************************************)
\* C11: the cross-node scan runs only with the cross-node threshold
\* configured and after the own queue and the same-node scan gave nothing;
\* it never takes a task from the own domain, from a same-node domain, or
\* from a domain whose queue held fewer tasks than the cross-node threshold.
C11_CrossNodeThreshold ==
    (obs.op = "dispatch" /\ obs.probes[2] # <<>>)
    => (/\ greedy_threshold_x_numa # 0
        /\ obs.stat \in {"GREEDY_XNUMA", "none"}
        /\ \A i \in 1 .. Len(obs.probes[2]) :
             /\ obs.probes[2][i] # cpu_to_dom_id(obs.prev_cpu)
             /\ dom_node_id(obs.probes[2][i])
                  # dom_node_id(cpu_to_dom_id(obs.prev_cpu))
        /\ obs.stat = "GREEDY_XNUMA"
             => Len(dom_dsq[obs.id]) + 1 >= greedy_threshold_x_numa)

\* C12: a same-node steal takes a task only from a domain of the own node,
\* other than the own domain, whose queue held more tasks than the same-node
\* threshold, and from the first such domain in cursor order.
C12_SameNodeThreshold ==
    (obs.op = "dispatch" /\ obs.stat = "GREEDY_LOCAL")
    => (/\ greedy_threshold # 0
        /\ obs.id # cpu_to_dom_id(obs.prev_cpu)
        /\ dom_node_id(obs.id) = dom_node_id(cpu_to_dom_id(obs.prev_cpu))
        /\ Len(dom_dsq[obs.id]) + 1 > greedy_threshold
        /\ obs.id = obs.probes[1][Len(obs.probes[1])]
        /\ \A i \in 1 .. (Len(obs.probes[1]) - 1) :
             Len(dom_dsq[obs.probes[1][i]]) <= greedy_threshold)

\* C13: one dispatch call probes at most nr_doms - 1 domains in its
\* same-node scan and at most nr_doms - 1 in its cross-node scan.
C13_ScanBounded ==
    obs.op = "dispatch"
    => (/\ Len(obs.probes[1]) <= nr_doms - 1
        /\ Len(obs.probes[2]) <= nr_doms - 1)

\* A dispatch on three domains of one node that probed both other domains.
C13_Witness ==
    /\ obs.op = "dispatch"
    /\ nr_doms = 3
    /\ Len(obs.probes[1]) = nr_doms - 1
    /\ obs.probes[1][1] # obs.probes[1][2]

(***************************************************************************)
(* Properties of the domain assignment                                     *)
(***************************************************************************)
\* C14: a task with an assigned domain has (affinity AND the domain's CPUs)
\* as its working mask, in every state: after every task_set_domain call,
\* also one that lost a race, and after every set_cpumask.
C14_WorkingAffinity ==
    \A t \in Tasks :
        (task[t].ctx /\ task[t].domc # NULL)
        => task[t].cpumask = task[t].cpus_ptr \cap DomCpumask(task[t].domc)

\* A set_cpumask that moved the task to another domain while the balancer's
\* store to target_dom landed inside task_set_domain.
C14_Witness ==
    /\ obs.op = "set_cpumask"
    /\ task[obs.task].domc # NULL
    /\ task[obs.task].domc # obs.pre.domc
    /\ task[obs.task].target_dom # task[obs.task].domc
    /\ task[obs.task].cpumask # obs.pre.cpumask

(***************************************************************************)
(* Properties of the greedy placement of rusty_select_cpu()                *)
(***************************************************************************)
\* The statistics of the greedy placement tiers.
GreedyStats == {"DIRECT_GREEDY", "DIRECT_GREEDY_FAR"}

\* The step is a select_cpu call, without a failing lookup, for an admitted
\* task t that is allowed on every CPU and whose domain has no idle CPU,
\* while a CPU of another domain that the refreshed tuning flags for direct
\* greedy placement sits on a wholly idle core.
GreedyCase(t) ==
    /\ obs'.op = "select_cpu"
    /\ obs'.task = t
    /\ obs'.miss = {}
    /\ task[t].ctx
    /\ task[t].domc # NULL
    /\ task[t].cpus_ptr = CPUS
    /\ DomCpumask(task[t].domc) \cap idle_cpumask = {}
    /\ (tune'.direct_greedy_cpumask \ DomCpumask(task[t].domc))
          \cap idle_smtmask # {}

\* C15: in that case select_cpu returns a direct-greedy CPU of another
\* domain, flags the task for local dispatch and counts a direct-greedy
\* placement.
C15_GreedyPlacement ==
    [][\A t \in Tasks :
          GreedyCase(t)
          => (/\ obs'.ret \in tune'.direct_greedy_cpumask
                                \ DomCpumask(task[t].domc)
              /\ obs'.exit = "direct"
              /\ task'[t].dispatch_local
              /\ obs'.stat \in GreedyStats \cup {"GREEDY_IDLE"})]_vars

\* C16: without cross-node greedy placement, a CPU returned by a greedy
\* placement tier lies on the NUMA node of the task's assigned domain.
C16_GreedyStaysOnNode ==
    (/\ obs.op = "select_cpu"
     /\ ~direct_greedy_numa
     /\ obs.stat \in GreedyStats)
    => (/\ obs.pre.domc # NULL
        /\ dom_node_id(cpu_to_dom_id(obs.ret)) = dom_node_id(obs.pre.domc))

(***************************************************************************)
(* The active-task ring                                                    *)
(***************************************************************************)
\* The rusty_running calls in flight on domain d: past their fetch-and-add,
\* before their store.
Recorders(d) ==
    {t \in DOMAIN recording : recording[t].need /\ recording[t].dom = d}

Dist(a, b) == IF a >= b THEN a - b ELSE b - a

\* The slot comes from the fetched cursor value taken modulo the capacity.
SlotOf(w) ==
    /\ w.idx \in RingSlots
    /\ w.idx = w.fetched % MAX_DOM_ACTIVE_TPTRS

\* Two recorders use one slot only a capacity or more of increments apart.
Apart(v, w) ==
    v.idx = w.idx => Dist(v.fetched, w.fetched) >= MAX_DOM_ACTIVE_TPTRS

\* C17: under any interleaving of rusty_running calls on different CPUs for
\* tasks of one domain, every write to the domain's ring, made or about to be
\* made, uses an index in [0, capacity) that is the value its fetch-and-add
\* of the write cursor returned, modulo the capacity; that value is below the
\* cursor; and two recorders use the same slot only if the cursor advanced by
\* at least the capacity between their increments.
C17_RingInBounds ==
    \A d \in DOMAIN ring_hist :
      LET W == ring_hist[d].writes
      IN  /\ \A i \in 1 .. Len(W) :
                /\ SlotOf(W[i])
                /\ W[i].fetched < active_tasks[d].write_idx
                /\ \A j \in 1 .. Len(W) : i # j => Apart(W[i], W[j])
                /\ \A t \in Recorders(d) : Apart(W[i], recording[t])
          /\ \A t \in Recorders(d) :
                /\ SlotOf(recording[t])
                /\ recording[t].fetched < active_tasks[d].write_idx
                /\ \A u \in Recorders(d) \ {t} :
                      Apart(recording[t], recording[u])

\* Two rusty_running calls overlapped and stored out of order into one slot:
\* the later store carries the older cursor value, a capacity behind.
C17_Witness ==
    /\ obs.op = "running"
    /\ \E d \in DOMAIN ring_hist :
         LET W == ring_hist[d].writes
         IN  \E i, j \in 1 .. Len(W) :
               /\ i < j
               /\ W[i].idx = W[j].idx
               /\ W[j].fetched < W[i].fetched
               /\ W[j].task = obs.task
               /\ active_tasks[d].tasks[W[j].idx] = obs.task

\* The tasks a domain's ring holds.
RingHolds(d) == {active_tasks[d].tasks[i] : i \in RingSlots} \ {""}

\* C18 as stated: after n run-starts on a domain, one after the other, the
\* ring of capacity C holds the min(n, C) tasks that started running most
\* recently.
C18_RingHoldsRecentStarts ==
    \A d \in DOMAIN ring_hist :
      \A i \in 1 .. Len(ring_hist[d].starts) :
        ring_hist[d].starts[i] \in RingHolds(d)

\* C18 as the code has it: a run-start records its task only when the
\* generation stored in the task differs from the ring's, and after k such
\* recordings on a domain, one after the other, the ring of capacity C holds
\* the min(k, C) most recently recorded tasks, the j-th recording in slot
\* (j - 1) modulo C, older ones overwritten by wraparound.
C18_RingHoldsRecentRecordings ==
    \A d \in DOMAIN ring_hist :
      LET W == ring_hist[d].writes
          k == Len(W)
      IN  /\ k = active_tasks[d].write_idx
          /\ \A j \in 1 .. k :
                j > k - MAX_DOM_ACTIVE_TPTRS =>
                  active_tasks[d].tasks[(j - 1) % MAX_DOM_ACTIVE_TPTRS]
                    = W[j].task
          /\ \A i \in RingSlots : i >= k => active_tasks[d].tasks[i] = ""

\* The ring has wrapped around, and the task that just started running, its
\* generation being the ring's, was not recorded again.
C18_Witness ==
    /\ obs.op = "running"
    /\ obs.pre.domc \in DOMAIN ring_hist
    /\ obs.pre.dom_active_tasks_gen = active_tasks[obs.pre.domc].gen
    /\ Len(ring_hist[obs.pre.domc].writes) > MAX_DOM_ACTIVE_TPTRS
    /\ obs.task \notin RingHolds(obs.pre.domc)

(***************************************************************************)
(* The tuning channel                                                      *)
(***************************************************************************)
\* The derived parameters agree with tune_input ti on every online CPU.
Refreshed(tn, ti) ==
    /\ tn.gen = ti.gen
    /\ tn.slice_ns = ti.slice_ns
    /\ \A c \in OnlineCPUs :
         /\ c \in tn.direct_greedy_cpumask <=> c \in ti.direct_greedy_cpumask
         /\ c \in tn.dom_direct_greedy[cpu_to_dom_id(c)]
              <=> c \in ti.direct_greedy_cpumask
         /\ c \in tn.kick_greedy_cpumask <=> c \in ti.kick_greedy_cpumask

\* C19: a call of refresh_tune_params (made first thing by every select_cpu)
\* leaves the slice length and the global and per-domain greedy masks as they
\* are when the cached generation equals the input's; when it differs, after
\* the call the cached generation and the slice length equal the input's, and
\* for every online CPU c bit c of the direct-greedy mask, of the
\* direct-greedy mask of c's domain and of the kick-greedy mask equals bit c
\* of the corresponding input mask.
C19_LazyRefresh ==
    [][obs'.op = "select_cpu" =>
         IF tune.gen = tune_input.gen THEN tune' = tune
         ELSE Refreshed(tune', tune_input)]_vars

\* A wakeup has refreshed the parameters from an input that sets bits of an
\* offline CPU, and a later wakeup has found new masks under the same
\* generation and left the derived ones alone.
C19_Witness ==
    /\ obs.op = "select_cpu"
    /\ tune.gen = tune_input.gen
    /\ tune.gen = MaxTuneGen
    /\ tune.direct_greedy_cpumask = {1}
    /\ tune.dom_direct_greedy[1] = {1}
    /\ tune.kick_greedy_cpumask = {0}
    /\ tune_input.direct_greedy_cpumask = {0, 1, 2, 3}
    /\ tune.slice_ns # tune_input.slice_ns
    /\ OnlineCPUs # CPUS

(***************************************************************************)
(* Domain selection at admission                                           *)
(***************************************************************************)
\* The k-th domain a scan examines that starts just after cursor value cur.
Examined(cur, k) == (((cur + 1) % U32) + (k - 1)) % nr_doms

\* The first domain of S in that order, or the sentinel.
FirstExamined(cur, S) ==
    IF \A k \in 1 .. nr_doms : Examined(cur, k) \notin S THEN NO_DOM_FOUND
    ELSE Examined(cur, CHOOSE k \in 1 .. nr_doms :
                         /\ Examined(cur, k) \in S
                         /\ \A j \in 1 .. (k - 1) : Examined(cur, j) \notin S)

\* The domains whose CPUs intersect an affinity mask.
Intersecting(cpus) == {d \in Doms : cpus \cap DomCpumask(d) # {}}

\* What the claim has task_pick_domain return.
Picked(cur, cpus, preferred) ==
    IF Intersecting(cpus) \cap preferred # {}
    THEN FirstExamined(cur, Intersecting(cpus) \cap preferred)
    ELSE FirstExamined(cur, Intersecting(cpus))

\* A step in which CPU obs'.cpu called task_pick_domain for task t.
PickCall(t) ==
    /\ obs'.op \in {"init_task", "set_cpumask"}
    /\ obs'.task = t
    /\ task'[t].ctx
    /\ nr_doms > 1

\* C20: a call of task_pick_domain advances the calling CPU's cursor by one,
\* examines every domain (each one that intersects the affinity ends up in
\* the membership mask, the k-th examined being k places after the cursor
\* value), and the task is assigned the first examined domain that intersects
\* the affinity and is in the preferred-domain mask if there is one, else the
\* first examined domain that intersects the affinity; with no intersecting
\* domain the sentinel comes back and the task's domain stays as it was.
C20_PickDomain ==
    [][\A t \in Tasks :
         PickCall(t) =>
           LET cur == pcpu_ctx[obs'.cpu].dom_rr_cur
               dom == Picked(cur, task'[t].cpus_ptr,
                             task'[t].preferred_dom_mask)
           IN  /\ pcpu_ctx'[obs'.cpu].dom_rr_cur = (cur + 1) % U32
               /\ \A d \in Doms :
                    \E k \in 1 .. nr_doms :
                      /\ Examined(cur, k) = d
                      /\ \A j \in 1 .. nr_doms : Examined(cur, j) = d => j = k
               /\ task'[t].dom_mask = Intersecting(task'[t].cpus_ptr)
               /\ task'[t].domc =
                    IF dom # NO_DOM_FOUND THEN dom
                    ELSE IF obs'.op = "init_task" THEN NULL
                    ELSE task[t].domc]_vars

\* A task whose memory policy prefers the node of the last domain got that
\* domain although the scan met another intersecting domain first, the
\* cursor having wrapped around on the way.
C20_Witness ==
    /\ obs.op = "set_cpumask"
    /\ nr_doms = 3
    /\ \E t \in Tasks :
         /\ obs.task = t
         /\ task[t].ctx
         /\ task[t].preferred_dom_mask = {2}
         /\ task[t].dom_mask = {0, 1, 2}
         /\ task[t].domc = 2
         /\ obs.pre.domc = 1
    /\ pcpu_ctx[obs.cpu].dom_rr_cur = 0

(***************************************************************************)
(* C21: admission assigns a domain                                         *)
(***************************************************************************)
\* The domain record of a task is set and holds a CPU of the task's affinity.
HasUsableDomain(tk) ==
    /\ tk.domc # NULL
    /\ DomCpumask(tk.domc) \cap tk.cpus_ptr # {}

\* C21: after init_task has returned success (it returns 0 once the context
\* is allocated, and no scheduler error was raised) the admitted task has a
\* non-null domain whose CPU mask intersects its affinity, also when
\* task_pick_domain found no intersecting domain.
C21_InitAssignsDomain ==
    (obs.op = "init_task" /\ ~obs.err) => HasUsableDomain(task[obs.task])

(***************************************************************************)
(* C22: a direct placement respects the affinity                           *)
(***************************************************************************)
\* C22: every CPU that select_cpu returns with the task marked for
\* local-queue dispatch (the direct exit) is in the task's current affinity
\* mask, on every decision path.
C22_DirectCpuAllowed ==
    (obs.op = "select_cpu" /\ obs.exit = "direct")
        => obs.ret \in task[obs.task].cpus_ptr

(***************************************************************************)
(* C23: an idle CPU is claimed by one wakeup                               *)
(***************************************************************************)
\* The statistics counted by the direct hits that rest on the CPU being
\* idle: previous-CPU reuse, the foreign linger, the domestic idle search
\* and greedy placement.
IdleHits ==
    {"PREV_IDLE", "GREEDY_IDLE", "DIRECT_DISPATCH", "DIRECT_GREEDY",
     "DIRECT_GREEDY_FAR"}

\* The select_cpu call of t has returned CPU c through the direct exit on
\* the strength of c being idle, and t has not been queued since.
HoldsIdleClaim(t, c) ==
    /\ st[t] = "woken"
    /\ select_call[t].pc = "done"
    /\ select_call[t].res.exit = "direct"
    /\ select_call[t].res.stat \in IdleHits
    /\ select_call[t].res.ret = c

\* C23: under any interleaving of select_cpu calls that run on different
\* CPUs, no two tasks are both marked for local dispatch to the same CPU on
\* the strength of that CPU being idle: each idle-based direct hit claims
\* the CPU's idle state atomically and one caller's claim succeeds.
C23_OneClaimPerIdleCpu ==
    \A t, u \in DOMAIN task, c \in CPUS :
        (HoldsIdleClaim(t, c) /\ HoldsIdleClaim(u, c)) => t = u

\* Two calls went for the same idle CPU, previous CPU of both tasks, while
\* both were in flight; one of them claimed it and the other went elsewhere.
C23_Witness ==
    \E t, u \in DOMAIN task :
        /\ t # u
        /\ select_call[t].prev_cpu = select_call[u].prev_cpu
        /\ HoldsIdleClaim(t, select_call[t].prev_cpu)
        /\ select_call[t].res.stat = "PREV_IDLE"
        /\ select_call[u].pc = "core"
        /\ obs.op = "prev_claim" /\ obs.task = u

(***************************************************************************)
(* C24: coverage of the same-node steal scan                               *)
(***************************************************************************)
\* Before a dispatch on cpu: its own domain queue is empty while a domain of
\* the same node, other than its own, holds a task the CPU can take.
StealPossible(cpu) ==
    LET curr_dom == cpu_to_dom_id(cpu)
    IN  /\ ~is_offline_cpu(cpu)
        /\ dom_dsq[curr_dom] = <<>>
        /\ greedy_threshold # 0
        /\ \E d \in Doms \ {curr_dom} :
             /\ dom_node_id(d) = dom_node_id(curr_dom)
             /\ move_to_local(dom_dsq[d], cpu) # 0

\* C24: a rusty_dispatch call made when the own domain queue is empty, the
\* same-node threshold is configured and another domain of the node has a
\* queued task steals a task, whatever the CPU's cursor: the nr_doms - 1
\* probes from the cursor reach every other domain.
C24_StealScanCoversNode ==
    [][\A c \in CPUS :
          (Dispatch(c) /\ StealPossible(c))
              => (obs'.stat = "GREEDY_LOCAL" /\ local_dsq'[c] # <<>>)]_vars

(***************************************************************************)
(* C25: refreshes on several CPUs                                          *)
(***************************************************************************)
\* C25: whenever a CPU's refresh_tune_params finds the cached generation
\* equal to the input's generation, the slice length and the direct-greedy
\* and kick-greedy masks it goes on to use are those derived from that
\* generation's input, under any interleaving with the refreshes of other
\* CPUs and an update of the input.
C25_CurrentGenerationIsRefreshed ==
    (obs.op = "refresh_test" /\ obs.ok) => Refreshed(tune, tune_input)

(***************************************************************************)
(* C26: the all-CPUs flag                                                  *)
(***************************************************************************)
\* C26: in every state after admission a task's all_cpus flag is true
\* exactly when its affinity mask contains every CPU of the all-CPU mask,
\* after init_task and after every set_cpumask.
C26_AllCpusFollowsAffinity ==
    \A t \in DOMAIN task :
        task[t].ctx
            => (task[t].all_cpus <=> all_cpumask \subseteq task[t].cpus_ptr)

(***************************************************************************)
(* C27: greedy placement with an offline previous CPU                      *)
(***************************************************************************)
\* The step is a plain select_cpu call, all lookups found, for a task t
\* eligible for greedy placement whose prev_cpu is offline, and the call
\* gets as far as the greedy placement: no idle CPU in the task's domain.
OfflineGreedyCase(t) ==
    /\ obs'.op = "select_cpu"
    /\ obs'.task = t
    /\ obs'.miss = {}
    /\ obs'.arg = 0
    /\ task[t].ctx
    /\ Cardinality(task[t].cpus_ptr) > 1
    /\ is_offline_cpu(task[t].cpu)
    /\ task[t].all_cpus
    /\ tune'.direct_greedy_cpumask # {}
    /\ task[t].cpumask \cap idle_cpumask = {}

\* C27: in that case the call does not fail and uses no domain record for
\* prev_cpu: it returns an idle CPU of the global direct-greedy set, one on
\* a wholly idle core if there is any, through the direct exit, and takes
\* the fallback exit when no CPU of the set is idle.
C27_OfflinePrevCpuStillPlaced ==
    [][\A t \in Tasks :
          OfflineGreedyCase(t)
          => LET dg == tune'.direct_greedy_cpumask
             IN  /\ ~obs'.err
                 /\ IF dg \cap idle_smtmask # {}
                    THEN obs'.exit = "direct" /\ obs'.ret \in dg \cap idle_smtmask
                    ELSE IF dg \cap idle_cpumask # {}
                    THEN obs'.exit = "direct" /\ obs'.ret \in dg \cap idle_cpumask
                    ELSE obs'.exit = "fallback"]_vars

(***************************************************************************)
(* C28: the kick that accompanies a domain-queue insertion                 *)
(***************************************************************************)
\* The working affinity mask of a task: the CPUs of its domain that its
\* affinity allows.
WorkingMask(tk) ==
    IF tk.domc = NULL THEN {} ELSE DomCpumask(tk.domc) \cap tk.cpus_ptr

\* C28: whenever rusty_enqueue puts a task on a domain queue while the
\* task's CPU is outside its working affinity mask and that mask is not
\* empty, it kicks a CPU; and a CPU it kicks on behalf of the domain is
\* always in that mask.
C28_ForeignEnqueueKicksDomain ==
    obs.op = "enqueue"
    => LET tk == task[obs.task]
       IN  /\ (/\ obs.kind = "dom"
               /\ tk.cpu \notin WorkingMask(tk)
               /\ WorkingMask(tk) # {})
                  => obs.kick # NULL
           /\ obs.kick # NULL => obs.kick \in WorkingMask(tk)

\* A task whose affinity was widened while it was queued is enqueued again
\* from a CPU outside its new domain, and a CPU of that domain is kicked.
C28_Witness ==
    /\ obs.op = "enqueue"
    /\ obs.kind = "dom"
    /\ obs.stat = "REPATRIATE"
    /\ obs.prest = "runnable"
    /\ task[obs.task].cpu \notin WorkingMask(task[obs.task])
    /\ obs.kick \in WorkingMask(task[obs.task])

(***************************************************************************)
(* C29: the order of a dispatch                                            *)
(***************************************************************************)
\* The number of tasks on the domain queues and on the local queues.
QueuedOnDomains(dq) == Cardinality({<<d, i>> \in Doms \X (1 .. Cardinality(DOMAIN task)) :
                                       i <= Len(dq[d])})

QueuedLocally(lq) == Cardinality({<<c, i>> \in CPUS \X (1 .. Cardinality(DOMAIN task)) :
                                     i <= Len(lq[c])})

\* C29: a rusty_dispatch call moves at most one task, and to the calling
\* CPU's local queue only; it takes the task from the CPU's own domain queue
\* when that queue has one for it, probes same-node domains only when the
\* own queue gave nothing, probes other nodes only after every same-node
\* probe gave nothing, and moves nothing when the CPU is offline.
C29_DispatchOrder ==
    [][\A c \in CPUS :
          Dispatch(c)
          => LET own == cpu_to_dom_id(c)
                 gives(d) == move_to_local(dom_dsq[d], c) # 0
                 moved == QueuedLocally(local_dsq') - QueuedLocally(local_dsq)
             IN  /\ moved \in {0, 1}
                 /\ QueuedOnDomains(dom_dsq) - QueuedOnDomains(dom_dsq') = moved
                 /\ \A o \in CPUS \ {c} : local_dsq'[o] = local_dsq[o]
                 /\ IF is_offline_cpu(c)
                    THEN moved = 0 /\ obs'.probes = <<<<>>, <<>>>>
                    ELSE /\ gives(own)
                            => (/\ moved = 1
                                /\ obs'.id = own
                                /\ obs'.probes = <<<<>>, <<>>>>)
                         /\ obs'.probes[2] # <<>>
                            => (/\ obs'.stat # "GREEDY_LOCAL"
                                /\ \A i \in 1 .. Len(obs'.probes[1]) :
                                     ~gives(obs'.probes[1][i]))]_vars

\* A dispatch that found its own queue and the other domain of its node
\* empty and took a task from a domain of the other node.
C29_Witness ==
    /\ obs.op = "dispatch"
    /\ obs.stat = "GREEDY_XNUMA"
    /\ obs.probes[1] # <<>>
    /\ obs.probes[2] # <<>>
    /\ local_dsq[obs.cpu] = <<obs.task>>
====
